---------------------------- MODULE Spec2Model ----------------------------
(***************************************************************************)
(* A model of the frame lifecycle of the display engine                    *)
(* (src/src/display/engine.py) and of the run loop that drives it          *)
(* (src/main.py).                                                          *)
(*                                                                         *)
(* The CPU side is one thread; `pc` is its position inside                 *)
(* SpaceGPS.run / Engine.render / Engine.__recreate_swapchain /            *)
(* Engine.cleanup.  The GPU side is the set `pending` of queue submissions *)
(* that have been accepted and have not finished; a submission finishes    *)
(* asynchronously (GpuComplete) and then signals the fence it was given.   *)
(*                                                                         *)
(* The Vulkan binding raises an exception for every result other than      *)
(* VK_SUCCESS (VkTimeout, VkSuboptimalKhr, VkErrorOutOfDateKhr, ...), so a *)
(* result the code does not catch ends the render() call with that         *)
(* exception.                                                              *)
(*                                                                         *)
(* vkAcquireNextImageKHR may return any image index: the index is          *)
(* independent of the frame counter, and an index may be handed out again  *)
(* before the GPU has finished the work last submitted for it.             *)
(*                                                                         *)
(* main.py calls render() without the scene argument Engine.render         *)
(* requires; the model takes the shape of the run loop from main.py and    *)
(* lets the call pass a scene.                                             *)
(*                                                                         *)
(* Eight specifications share the variables and the actions:               *)
(*   Spec          the run loop, from a fully constructed engine to the    *)
(*                 end of the process; the scene is Scene(), the surface   *)
(*                 limits are fixed and every creation call of a           *)
(*                 recreation succeeds;                                    *)
(*   SetupSpec     Engine.__init__, with creation calls that may fail;     *)
(*   RecreateSpec  one __recreate_swapchain, for every surface limit;      *)
(*   TableSpec     __prepare_frame and __record_draw_command, for every    *)
(*                 scene in Scenes;                                        *)
(*   RebuildSpec   one render() call whose __recreate_swapchain may meet   *)
(*                 failing creation calls;                                 *)
(*   SelectSpec    the selection helpers of swapchain.py, memory.py and of *)
(*                 the variants _swapchain.py, _buffers.py, _utils.py,     *)
(*                 called one at a time on every input of bounded size;    *)
(*                 `sel` holds the last call;                              *)
(*   LiveSpec      the run loop up to the first recreation, with a CPU     *)
(*                 thread that keeps running (weak fairness);              *)
(*   CopySpec      copy_buffer of _buffers.py and the one-shot             *)
(*                 CommandBufferManager of _commands.py, with failing      *)
(*                 calls; `copy` holds the call.                           *)
(***************************************************************************)
EXTENDS Integers, Sequences, FiniteSets, TLC

\* ------------------------------------------------------------------ bounds
\* Number of render() calls the run loop makes before the window closes.
MaxCalls == 3
\* Largest number of swapchain images the surface may hand out.
MaxFrames == 2
\* Window sizes range over 0..MaxDim (0: minimized).
MaxDim == 1
\* Small scenes have 0..MaxInstances positions of each mesh type.
MaxInstances == 2

VARIABLES
    pc,              \* position of the CPU thread
    ret,             \* where __recreate_swapchain returns to
    exc,             \* the exception that ended the run loop, or "none"
    frameNumber,     \* Engine.__current_frame_number
    nFrames,         \* Engine.__max_frames_in_flight = len(__swapchain_frames)
    width, height,   \* Engine.width, Engine.height
    fence,           \* frame slot -> in_flight_fence is signaled
    pending,         \* accepted, unfinished queue submissions
    frameIndex,      \* render()'s local frame_index, or Unbound
    iaArmedBy,       \* slot -> call whose acquire signals image_available (0: none)
    rfArmedBy,       \* slot -> call whose submit signals render_finished (0: none)
    callCount,       \* number of render() calls started
    call,            \* what the current render() call has done so far
    live,            \* kinds of GPU objects that exist
    made,            \* kind -> swapchain generation it was last created in
    swapGen,         \* number of swapchains created so far
    cmdBufAllocated, \* command buffers allocated from the pool and not freed
    oplog,           \* API calls of the current recreation / cleanup, in order
    lastIdleDrained, \* submissions the last vkDeviceWaitIdle had to wait for
    caps,            \* image extent limits the surface reports
    extent,          \* Engine.__swapchain_extent
    frames,          \* slot -> the per-slot objects of SwapChainFrame it holds
    scene,           \* the scene passed to render(): positions per mesh type
    missing,         \* kinds whose handle is None: creation failed, only logged
    sel,             \* the last call of a selection helper: arguments, result
    mapping,         \* per-slot buffer kind -> vkMapMemory calls, mapped now
    pipelineExtent,  \* the extent the graphics pipeline was built with
    copy             \* the copy_buffer call in progress, or the last one

vars == <<pc, ret, exc, frameNumber, nFrames, width, height, fence, pending,
          frameIndex, iaArmedBy, rfArmedBy, callCount, call, live, made,
          swapGen, cmdBufAllocated, oplog, lastIdleDrained,
          caps, extent, frames, scene, missing, sel, mapping, pipelineExtent,
          copy>>

\* render()'s local frame_index: << >> while unassigned, << i >> once assigned.
Unbound == << >>

FrameIndexValue == frameIndex[1]

Slots == 0 .. (nFrames - 1)

\* ------------------------------------------------------------ object kinds
\* Objects owned by each SwapChainFrame and destroyed by __cleanup_swapchain.
CleanupSwapchainKinds ==
    {"image_views", "frame_buffers", "model_buffers", "uniform_buffers",
     "semaphores", "fences", "descriptor_pool", "descriptor_sets", "swapchain"}

\* Everything Engine.__init__ creates.
AllKinds ==
    CleanupSwapchainKinds \cup
    {"window", "instance", "debug_messenger", "surface", "device",
     "frame_dsl", "material_dsl", "pipeline_layout", "render_pass", "pipeline",
     "command_pool", "cmd_buffers", "meshes", "material_pool", "materials"}

\* The API calls of Engine.__cleanup_swapchain, in the order of its body
\* (the per-frame loop, then the descriptor pool, then the swapchain).
CleanupSwapchainCalls ==
    << "destroy image_views", "destroy frame_buffers",
       "unmap model_buffers", "free model_buffers", "destroy model_buffers",
       "unmap uniform_buffers", "free uniform_buffers", "destroy uniform_buffers",
       "destroy semaphores", "destroy fences",
       "destroy descriptor_pool", "destroy swapchain" >>

\* --------------------------------------------------------- per-call record
NewCall ==
    [ resize      |-> FALSE,      \* poll_events delivered a framebuffer resize
      fenceReset  |-> FALSE,      \* vkResetFences was called
      acquire     |-> "none",     \* result of vkAcquireNextImageKHR
      recorded    |-> FALSE,      \* the command buffer was reset and recorded
      submit      |-> "none",     \* "ok" / "failed": result of vkQueueSubmit
      submitWait  |-> 0,          \* call that signals the semaphore submit waits on
      present     |-> "none",     \* result of vkQueuePresentKHR, once called
      presentWait |-> 0,          \* call that signals the semaphore present waits on
      recreated   |-> FALSE,      \* __recreate_swapchain ran to its end
      table       |-> << >>,      \* entries __prepare_frame stored, by mesh type
      copied      |-> 0,          \* entries memmoved into the mapped buffer
      draws       |-> << >>,      \* the vkCmdDraw calls, in order
      cmds        |-> << >>,      \* every call made on the command buffer
      cbState     |-> "initial" ] \* state of the command buffer

\* An exception leaves render(); SpaceGPS.run and __mainloop catch nothing, so
\* it ends the run loop and the process (app.close() is not reached).
Raise(e) ==
    /\ pc' = "crashed"
    /\ exc' = e

\* ------------------------------------------------------- swapchain extent
\* The image extent limits vkGetPhysicalDeviceSurfaceCapabilitiesKHR may
\* report: minImageExtent <= maxImageExtent in each dimension.
SurfaceCapabilities ==
    { c \in [ minW : 0 .. (MaxDim + 1), maxW : 0 .. (MaxDim + 1),
              minH : 0 .. (MaxDim + 1), maxH : 0 .. (MaxDim + 1) ] :
         c.minW <= c.maxW /\ c.minH <= c.maxH }

\* Python's min and max of two integers.
Min(a, b) == IF a <= b THEN a ELSE b

Max(a, b) == IF a >= b THEN a ELSE b

\* An extent choice that takes the window size as it is.
ChoseSwapchainExtentUnlimited(c, w, h) == [ width |-> w, height |-> h ]

\* _chose_swapchain_extent: the window size, limited by the capabilities.
ChoseSwapchainExtent(c, w, h) ==
    [ width  |-> Min(c.maxW, Max(c.minW, w)),
      height |-> Min(c.maxH, Max(c.minH, h)) ]

\* ------------------------------------------------------- per-slot objects
\* A SwapChainFrame as make_swapchain returns it: image and image view only.
BareFrame == [ command_buffer |-> 0, semaphores |-> 0, fence |-> 0 ]

\* A make_fence without VK_FENCE_CREATE_SIGNALED_BIT.
FenceCreatedUnsignaled == FALSE

\* VK_FENCE_CREATE_SIGNALED_BIT: make_fence creates the fence signaled.
FenceCreatedSignaled == TRUE

\* ------------------------------------------------------------------ scene
\* Scene(): ten positions for each of the three mesh types.
DefaultScene == [ triangle |-> 10, square |-> 10, pentagon |-> 10 ]

\* SwapChainFrame.model_transforms has 1024 entries, and the mapped model
\* buffer room for as many.
TableCapacity == 1024

\* Lengths a scene's position lists may have: small ones, the lengths 10, 6
\* and 9, and the ones around the table capacity.
InstanceCounts ==
    (0 .. MaxInstances) \cup
    {6, 9, 10, TableCapacity - 1, TableCapacity, TableCapacity + 1}

Scenes ==
    [ triangle : InstanceCounts, square : InstanceCounts,
      pentagon : InstanceCounts ]

\* n entries for mesh type m.
Repeat(m, n) == [i \in 1 .. n |-> m]

\* The assignments model_transforms[i] = ... the three loops of
\* __prepare_frame make, i = 0, 1, 2, ...: triangles, squares, pentagons.
InstanceWrites(sc) ==
    Repeat("triangle", sc.triangle) \o Repeat("square", sc.square)
        \o Repeat("pentagon", sc.pentagon)

\* A table that stores every assignment, whatever its index.
TableStoreUnchecked(writes) == writes

\* model_transforms is a numpy array of TableCapacity entries: an assignment
\* at an index >= TableCapacity raises IndexError and stores nothing.
TableStore(writes) ==
    IF Len(writes) > TableCapacity
       THEN SubSeq(writes, 1, TableCapacity)
       ELSE writes

\* A __render_mesh that returns the first_instance it was given.
RenderMeshSameFirst(first_instance, instance_count) == first_instance

\* __render_mesh returns the first instance of the next mesh type.
RenderMesh(first_instance, instance_count) == first_instance + instance_count

\* The vkCmdDraw calls of __record_draw_command: triangles, squares,
\* pentagons, each starting where __render_mesh said the one before ended.
Draws(sc) ==
    LET first1 == 0
        first2 == RenderMesh(first1, sc.triangle)
        first3 == RenderMesh(first2, sc.square)
    IN  << [ mesh |-> "triangle", firstInstance |-> first1,
             instanceCount |-> sc.triangle ],
           [ mesh |-> "square", firstInstance |-> first2,
             instanceCount |-> sc.square ],
           [ mesh |-> "pentagon", firstInstance |-> first3,
             instanceCount |-> sc.pentagon ] >>

\* What __render_mesh calls on the command buffer for one mesh.
RenderMeshCommands ==
    << "vkCmdBindDescriptorSets 1", "vkCmdBindVertexBuffers", "vkCmdDraw" >>

\* Every call __record_draw_command makes on the command buffer, in order;
\* CommandBufferManager.__enter__ only logs a failing vkBeginCommandBuffer,
\* so the body runs and __exit__ calls vkEndCommandBuffer all the same.
RecordedCommands(beginOk) ==
    << IF beginOk THEN "vkBeginCommandBuffer"
                  ELSE "vkBeginCommandBuffer failed" >>
    \o << "vkCmdBindDescriptorSets 0", "vkCmdBeginRenderPass",
          "vkCmdBindPipeline" >>
    \o RenderMeshCommands \o RenderMeshCommands \o RenderMeshCommands
    \o << "vkCmdEndRenderPass" >>
    \o << IF beginOk THEN "vkEndCommandBuffer"
                     ELSE "vkEndCommandBuffer failed" >>

\* ------------------------------------------------------ selection helpers
\* No selection helper has been called yet.
NoCall == [ fn |-> "none" ]

\* ------------------------------------------------------------ copy_buffer
\* No copy_buffer call has been made: no temporary command buffer, nothing
\* recorded, nothing submitted.
NoCopy ==
    [ pc         |-> "idle",     \* position inside copy_buffer
      size       |-> 0,          \* the size argument
      allocated  |-> FALSE,      \* the temporary command buffer is allocated
      cmds       |-> << >>,      \* calls made on the command buffer
      bodyRaised |-> FALSE,      \* the body of the with statement raised
      ended      |-> FALSE,      \* vkEndCommandBuffer succeeded
      submitted  |-> FALSE,      \* vkQueueSubmit accepted the buffer
      exc        |-> "none" ]    \* the exception that left copy_buffer

\* ------------------------------------------------------ buffer mappings
\* The two host-visible buffers of each SwapChainFrame.
BufferKinds == { "uniform_buffers", "model_buffers" }

\* No buffer: none created yet, or __cleanup_swapchain has called
\* vkUnmapMemory, vkFreeMemory and vkDestroyBuffer for each.
NoBuffers == [k \in BufferKinds |-> [ maps |-> 0, mapped |-> FALSE ]]

\* Buffers that are created and never mapped.
MakeDescriptorResourcesUnmapped ==
    [k \in BufferKinds |-> [ maps |-> 0, mapped |-> FALSE ]]

\* make_descriptor_resources: create_buffer, then one vkMapMemory whose
\* result is kept as the write location, for the uniform and the model
\* buffer.
MakeDescriptorResources ==
    [k \in BufferKinds |-> [ maps |-> 1, mapped |-> TRUE ]]

\* ---------------------------------------------------------------- initial
\* The state after Engine.__init__: every object created once, every fence
\* created signaled, nothing submitted.
Init ==
    /\ pc = "loop"
    /\ ret = "none"
    /\ exc = "none"
    /\ frameNumber = 0
    /\ nFrames \in 1 .. MaxFrames
    /\ width = MaxDim
    /\ height = MaxDim
    /\ fence = [s \in 0 .. (nFrames - 1) |-> FenceCreatedSignaled]
    /\ pending = {}
    /\ frameIndex = Unbound
    /\ iaArmedBy = [s \in 0 .. (nFrames - 1) |-> 0]
    /\ rfArmedBy = [s \in 0 .. (nFrames - 1) |-> 0]
    /\ callCount = 0
    /\ call = NewCall
    /\ live = AllKinds
    /\ made = [k \in AllKinds |-> 1]
    /\ swapGen = 1
    /\ cmdBufAllocated = nFrames + 1
    /\ oplog = << >>
    /\ lastIdleDrained = 0
    /\ caps = [ minW |-> 1, maxW |-> MaxDim, minH |-> 1, maxH |-> MaxDim ]
    /\ extent = ChoseSwapchainExtent(caps, width, height)
    /\ frames = [s \in 0 .. (nFrames - 1) |->
                    [ command_buffer |-> 1, semaphores |-> 2, fence |-> 1 ]]
    /\ scene = DefaultScene
    /\ missing = {}
    /\ sel = NoCall
    /\ copy = NoCopy
    /\ mapping = MakeDescriptorResources
    /\ pipelineExtent = extent

\* --------------------------------------------------------------- run loop
\* SpaceGPS.run: the window is not closing; poll events and call render().
\* The events polled may include a framebuffer resize; the engine registers
\* no callback for it, so it changes nothing in the engine.
RenderCall ==
    /\ pc = "loop"
    /\ callCount < MaxCalls
    /\ pc' = "wait_fence"
    /\ callCount' = callCount + 1
    /\ \E r \in BOOLEAN : call' = [NewCall EXCEPT !.resize = r]
    /\ frameIndex' = Unbound
    /\ UNCHANGED <<ret, exc, frameNumber, nFrames, width, height, fence, pending,
                   iaArmedBy, rfArmedBy, live, made, swapGen, cmdBufAllocated,
                   oplog, lastIdleDrained>>
    /\ UNCHANGED <<caps, extent, frames, scene, missing>>
    /\ UNCHANGED sel
    /\ UNCHANGED <<mapping, pipelineExtent, copy>>

\* SpaceGPS.run ends because the window should close; app.close() calls
\* Engine.cleanup.
WindowClose ==
    /\ pc = "loop"
    /\ pc' = "cl_idle"
    /\ oplog' = << >>
    /\ UNCHANGED <<ret, exc, frameNumber, nFrames, width, height, fence, pending,
                   frameIndex, iaArmedBy, rfArmedBy, callCount, call, live, made,
                   swapGen, cmdBufAllocated, lastIdleDrained>>
    /\ UNCHANGED <<caps, extent, frames, scene, missing>>
    /\ UNCHANGED sel
    /\ UNCHANGED <<mapping, pipelineExtent, copy>>

\* ----------------------------------------------------------------- render
\* A fence wait that returns whether or not the fence is signaled.
WaitForFencesNoWait ==
    /\ pc = "wait_fence"
    /\ pc' = "reset_fence"
    /\ UNCHANGED <<ret, exc, frameNumber, nFrames, width, height, fence, pending,
                   frameIndex, iaArmedBy, rfArmedBy, callCount, call, live, made,
                   swapGen, cmdBufAllocated, oplog, lastIdleDrained>>
    /\ UNCHANGED <<caps, extent, frames, scene, missing>>
    /\ UNCHANGED sel
    /\ UNCHANGED <<mapping, pipelineExtent, copy>>

\* vkWaitForFences on the current slot's fence returns: the fence is signaled.
WaitForFencesOk ==
    /\ pc = "wait_fence"
    /\ fence[frameNumber]
    /\ pc' = "reset_fence"
    /\ UNCHANGED <<ret, exc, frameNumber, nFrames, width, height, fence, pending,
                   frameIndex, iaArmedBy, rfArmedBy, callCount, call, live, made,
                   swapGen, cmdBufAllocated, oplog, lastIdleDrained>>
    /\ UNCHANGED <<caps, extent, frames, scene, missing>>
    /\ UNCHANGED sel
    /\ UNCHANGED <<mapping, pipelineExtent, copy>>

\* A vkWaitForFences without timeout: it blocks while the fence is
\* unsignaled.
WaitForFencesForever ==
    /\ pc = "wait_fence"
    /\ ~fence[frameNumber]
    /\ UNCHANGED vars

\* vkWaitForFences gives up after RENDER_FENCE_TIMEOUT: VkTimeout is raised and
\* nothing in render() catches it.
WaitForFencesTimeout ==
    /\ pc = "wait_fence"
    /\ ~fence[frameNumber]
    /\ Raise("VkTimeout")
    /\ UNCHANGED <<ret, frameNumber, nFrames, width, height, fence, pending,
                   frameIndex, iaArmedBy, rfArmedBy, callCount, call, live, made,
                   swapGen, cmdBufAllocated, oplog, lastIdleDrained>>
    /\ UNCHANGED <<caps, extent, frames, scene, missing>>
    /\ UNCHANGED sel
    /\ UNCHANGED <<mapping, pipelineExtent, copy>>

\* vkResetFences on the current slot's fence, right after the wait.
ResetFences ==
    /\ pc = "reset_fence"
    /\ fence' = [fence EXCEPT ![frameNumber] = FALSE]
    /\ call' = [call EXCEPT !.fenceReset = TRUE]
    /\ pc' = "acquire"
    /\ UNCHANGED <<ret, exc, frameNumber, nFrames, width, height, pending,
                   frameIndex, iaArmedBy, rfArmedBy, callCount, live, made,
                   swapGen, cmdBufAllocated, oplog, lastIdleDrained>>
    /\ UNCHANGED <<caps, extent, frames, scene, missing>>
    /\ UNCHANGED sel
    /\ UNCHANGED <<mapping, pipelineExtent, copy>>

\* Entry of __recreate_swapchain: width and height are zeroed and the size
\* loop starts; `r` is the statement of render() that follows the call.
EnterRecreate(r) ==
    /\ pc' = "rc_size"
    /\ ret' = r
    /\ width' = 0
    /\ height' = 0
    /\ oplog' = << >>

\* vkAcquireNextImageKHR succeeds with some image index; the image-available
\* semaphore of the current slot will be signaled by this acquire.
AcquireSuccess ==
    /\ pc = "acquire"
    /\ \E i \in Slots : frameIndex' = << i >>
    /\ iaArmedBy' = [iaArmedBy EXCEPT ![frameNumber] = callCount]
    /\ call' = [call EXCEPT !.acquire = "success"]
    /\ pc' = "frame"
    /\ UNCHANGED <<ret, exc, frameNumber, nFrames, width, height, fence, pending,
                   rfArmedBy, callCount, live, made, swapGen, cmdBufAllocated,
                   oplog, lastIdleDrained>>
    /\ UNCHANGED <<caps, extent, frames, scene, missing>>
    /\ UNCHANGED sel
    /\ UNCHANGED <<mapping, pipelineExtent, copy>>

\* vkAcquireNextImageKHR raises VkErrorOutOfDateKhr: the handler calls
\* __recreate_swapchain and then falls through to the statement after the try.
AcquireOutOfDate ==
    /\ pc = "acquire"
    /\ call' = [call EXCEPT !.acquire = "out_of_date"]
    /\ EnterRecreate("frame")
    /\ UNCHANGED <<exc, frameNumber, nFrames, fence, pending, frameIndex,
                   iaArmedBy, rfArmedBy, callCount, live, made, swapGen,
                   cmdBufAllocated, lastIdleDrained>>
    /\ UNCHANGED <<caps, extent, frames, scene, missing>>
    /\ UNCHANGED sel
    /\ UNCHANGED <<mapping, pipelineExtent, copy>>

\* vkAcquireNextImageKHR raises anything else (timeout, suboptimal): not caught.
AcquireRaises ==
    /\ pc = "acquire"
    /\ \E r \in {"timeout", "suboptimal"} :
          /\ call' = [call EXCEPT !.acquire = r]
          /\ Raise(IF r = "timeout" THEN "VkTimeout" ELSE "VkSuboptimalKhr")
    /\ UNCHANGED <<ret, frameNumber, nFrames, width, height, fence, pending,
                   frameIndex, iaArmedBy, rfArmedBy, callCount, live, made,
                   swapGen, cmdBufAllocated, oplog, lastIdleDrained>>
    /\ UNCHANGED <<caps, extent, frames, scene, missing>>
    /\ UNCHANGED sel
    /\ UNCHANGED <<mapping, pipelineExtent, copy>>

\* frame = self.__swapchain_frames[frame_index]: reading a local that was
\* never assigned raises UnboundLocalError.
SelectFrame ==
    /\ pc = "frame"
    /\ IF frameIndex = Unbound
          THEN Raise("UnboundLocalError")
          ELSE pc' = "reset_cb" /\ exc' = exc
    /\ UNCHANGED <<ret, frameNumber, nFrames, width, height, fence, pending,
                   frameIndex, iaArmedBy, rfArmedBy, callCount, call, live, made,
                   swapGen, cmdBufAllocated, oplog, lastIdleDrained>>
    /\ UNCHANGED <<caps, extent, frames, scene, missing>>
    /\ UNCHANGED sel
    /\ UNCHANGED <<mapping, pipelineExtent, copy>>

\* vkResetCommandBuffer on the command buffer of frames[frame_index].
ResetCommandBuffer ==
    /\ pc = "reset_cb"
    /\ call' = [call EXCEPT !.cbState = "initial"]
    /\ pc' = "prepare"
    /\ UNCHANGED <<ret, exc, frameNumber, nFrames, width, height, fence, pending,
                   frameIndex, iaArmedBy, rfArmedBy, callCount, live, made,
                   swapGen, cmdBufAllocated, oplog, lastIdleDrained>>
    /\ UNCHANGED <<caps, extent, frames, scene, missing>>
    /\ UNCHANGED sel
    /\ UNCHANGED <<mapping, pipelineExtent, copy>>

\* __prepare_frame(frame_index): memmove into the mapped uniform and storage
\* buffers of frames[frame_index] and rewrite its descriptor set.
PrepareFrame ==
    /\ pc = "prepare"
    /\ LET writes == InstanceWrites(scene) IN
          IF Len(writes) > TableCapacity
             THEN /\ call' = [call EXCEPT !.table = TableStore(writes)]
                  /\ Raise("IndexError")
             ELSE /\ call' = [call EXCEPT !.table = TableStore(writes),
                                          !.copied = Len(writes)]
                  /\ pc' = "record"
                  /\ exc' = exc
    /\ UNCHANGED <<ret, frameNumber, nFrames, width, height, fence, pending,
                   frameIndex, iaArmedBy, rfArmedBy, callCount, live, made,
                   swapGen, cmdBufAllocated, oplog, lastIdleDrained>>
    /\ UNCHANGED <<caps, extent, frames, scene, missing>>
    /\ UNCHANGED sel
    /\ UNCHANGED <<mapping, pipelineExtent, copy>>

\* __record_draw_command into the command buffer of frames[frame_index].
RecordDrawCommand ==
    /\ pc = "record"
    /\ \E beginOk \in BOOLEAN :
          call' = [call EXCEPT
                      !.recorded = TRUE,
                      !.draws = Draws(scene),
                      !.cmds = RecordedCommands(beginOk),
                      !.cbState = IF beginOk THEN "executable" ELSE "initial"]
    /\ pc' = "submit"
    /\ UNCHANGED <<ret, exc, frameNumber, nFrames, width, height, fence, pending,
                   frameIndex, iaArmedBy, rfArmedBy, callCount, live, made,
                   swapGen, cmdBufAllocated, oplog, lastIdleDrained>>
    /\ UNCHANGED <<caps, extent, frames, scene, missing>>
    /\ UNCHANGED sel
    /\ UNCHANGED <<mapping, pipelineExtent, copy>>

\* The submission vkQueueSubmit hands to the graphics queue: the command
\* buffer of frames[frame_index], waiting on and signaling the semaphores and
\* the fence of frames[current_frame_number].
Submission ==
    [slot |-> frameNumber, frame |-> FrameIndexValue, call |-> callCount]

\* vkQueueSubmit is accepted.
QueueSubmitOk ==
    /\ pc = "submit"
    /\ pending' = pending \cup {Submission}
    /\ call' = [call EXCEPT !.submit = "ok",
                            !.submitWait = iaArmedBy[frameNumber]]
    /\ iaArmedBy' = [iaArmedBy EXCEPT ![frameNumber] = 0]
    /\ rfArmedBy' = [rfArmedBy EXCEPT ![frameNumber] = callCount]
    /\ pc' = "present"
    /\ UNCHANGED <<ret, exc, frameNumber, nFrames, width, height, fence,
                   frameIndex, callCount, live, made, swapGen, cmdBufAllocated,
                   oplog, lastIdleDrained>>
    /\ UNCHANGED <<caps, extent, frames, scene, missing>>
    /\ UNCHANGED sel
    /\ UNCHANGED <<mapping, pipelineExtent, copy>>

\* vkQueueSubmit raises VkError/VkException: logged, and render() goes on.
QueueSubmitFails ==
    /\ pc = "submit"
    /\ call' = [call EXCEPT !.submit = "failed"]
    /\ pc' = "present"
    /\ UNCHANGED <<ret, exc, frameNumber, nFrames, width, height, fence, pending,
                   frameIndex, iaArmedBy, rfArmedBy, callCount, live, made,
                   swapGen, cmdBufAllocated, oplog, lastIdleDrained>>
    /\ UNCHANGED <<caps, extent, frames, scene, missing>>
    /\ UNCHANGED sel
    /\ UNCHANGED <<mapping, pipelineExtent, copy>>

\* What every vkQueuePresentKHR call does before its result is known: the
\* request is issued, waiting on the current slot's render-finished semaphore.
PresentIssued(r) ==
    /\ call' = [call EXCEPT !.present = r,
                            !.presentWait = rfArmedBy[frameNumber]]
    /\ rfArmedBy' = [rfArmedBy EXCEPT ![frameNumber] = 0]

\* vkQueuePresentKHR succeeds.
QueuePresentOk ==
    /\ pc = "present"
    /\ PresentIssued("success")
    /\ pc' = "advance"
    /\ UNCHANGED <<ret, exc, frameNumber, nFrames, width, height, fence, pending,
                   frameIndex, iaArmedBy, callCount, live, made, swapGen,
                   cmdBufAllocated, oplog, lastIdleDrained>>
    /\ UNCHANGED <<caps, extent, frames, scene, missing>>
    /\ UNCHANGED sel
    /\ UNCHANGED <<mapping, pipelineExtent, copy>>

\* vkQueuePresentKHR raises VkErrorOutOfDateKhr: __recreate_swapchain, then the
\* counter advance.
QueuePresentOutOfDate ==
    /\ pc = "present"
    /\ PresentIssued("out_of_date")
    /\ EnterRecreate("advance")
    /\ UNCHANGED <<exc, frameNumber, nFrames, fence, pending, frameIndex,
                   iaArmedBy, callCount, live, made, swapGen, cmdBufAllocated,
                   lastIdleDrained>>
    /\ UNCHANGED <<caps, extent, frames, scene, missing>>
    /\ UNCHANGED sel
    /\ UNCHANGED <<mapping, pipelineExtent, copy>>

\* vkQueuePresentKHR reports VK_SUBOPTIMAL_KHR: the binding raises
\* VkSuboptimalKhr, which `except VkErrorOutOfDateKhr` does not catch.
QueuePresentSuboptimal ==
    /\ pc = "present"
    /\ PresentIssued("suboptimal")
    /\ Raise("VkSuboptimalKhr")
    /\ UNCHANGED <<ret, frameNumber, nFrames, width, height, fence, pending,
                   frameIndex, iaArmedBy, callCount, live, made, swapGen,
                   cmdBufAllocated, oplog, lastIdleDrained>>
    /\ UNCHANGED <<caps, extent, frames, scene, missing>>
    /\ UNCHANGED sel
    /\ UNCHANGED <<mapping, pipelineExtent, copy>>

\* An advance of the frame counter that does not wrap around.
AdvanceNoWrap ==
    /\ pc = "advance"
    /\ frameNumber' = frameNumber + 1
    /\ pc' = "loop"
    /\ UNCHANGED <<ret, exc, nFrames, width, height, fence, pending, frameIndex,
                   iaArmedBy, rfArmedBy, callCount, call, live, made, swapGen,
                   cmdBufAllocated, oplog, lastIdleDrained>>
    /\ UNCHANGED <<caps, extent, frames, scene, missing>>
    /\ UNCHANGED sel
    /\ UNCHANGED <<mapping, pipelineExtent, copy>>

\* current_frame_number += 1; current_frame_number %= max_frames_in_flight.
Advance ==
    /\ pc = "advance"
    /\ frameNumber' = (frameNumber + 1) % nFrames
    /\ pc' = "loop"
    /\ UNCHANGED <<ret, exc, nFrames, width, height, fence, pending, frameIndex,
                   iaArmedBy, rfArmedBy, callCount, call, live, made, swapGen,
                   cmdBufAllocated, oplog, lastIdleDrained>>
    /\ UNCHANGED <<caps, extent, frames, scene, missing>>
    /\ UNCHANGED sel
    /\ UNCHANGED <<mapping, pipelineExtent, copy>>

\* -------------------------------------------------------------------- GPU
\* A submission finishes on the GPU and signals the fence it was submitted
\* with.
GpuComplete ==
    /\ \E p \in pending :
          /\ pending' = pending \ {p}
          /\ fence' = [fence EXCEPT ![p.slot] = TRUE]
    /\ UNCHANGED <<pc, ret, exc, frameNumber, nFrames, width, height,
                   frameIndex, iaArmedBy, rfArmedBy, callCount, call, live, made,
                   swapGen, cmdBufAllocated, oplog, lastIdleDrained>>
    /\ UNCHANGED <<caps, extent, frames, scene, missing>>
    /\ UNCHANGED sel
    /\ UNCHANGED <<mapping, pipelineExtent, copy>>

\* ------------------------------------------------ object creation / release
Destroy(kinds, calls) ==
    /\ live' = live \ kinds
    /\ oplog' = oplog \o calls

Create(kinds, gen, calls) ==
    /\ live' = live \cup kinds
    /\ made' = [k \in AllKinds |-> IF k \in kinds THEN gen ELSE made[k]]
    /\ oplog' = oplog \o calls

\* A faulty vkDeviceWaitIdle that returns without waiting; C9 must tell it
\* from the real one.
DeviceWaitIdleSkipped ==
    /\ UNCHANGED <<pending, fence>>
    /\ lastIdleDrained' = 0

\* vkDeviceWaitIdle returns once every accepted submission has finished (each
\* one signaling its fence on the way).
DeviceWaitIdle ==
    /\ pending' = {}
    /\ fence' = [s \in DOMAIN fence |->
                    fence[s] \/ (\E p \in pending : p.slot = s)]
    /\ lastIdleDrained' = Cardinality(pending)

\* --------------------------------------------------- __recreate_swapchain
\* A size loop that goes on as soon as one of the two dimensions is non-zero.
RecreateWaitSizeEitherNonZero ==
    /\ pc = "rc_size"
    /\ \E w \in 0 .. MaxDim, h \in 0 .. MaxDim :
          /\ width' = w
          /\ height' = h
          /\ pc' = IF w = 0 /\ h = 0 THEN "rc_size" ELSE "rc_idle"
    /\ UNCHANGED <<ret, exc, frameNumber, nFrames, fence, pending, frameIndex,
                   iaArmedBy, rfArmedBy, callCount, call, live, made, swapGen,
                   cmdBufAllocated, oplog, lastIdleDrained>>
    /\ UNCHANGED <<caps, extent, frames, scene, missing>>
    /\ UNCHANGED sel
    /\ UNCHANGED <<mapping, pipelineExtent, copy>>

\* while width == 0 or height == 0: get_window_size(); wait_events()
RecreateWaitSize ==
    /\ pc = "rc_size"
    /\ \E w \in 0 .. MaxDim, h \in 0 .. MaxDim :
          /\ width' = w
          /\ height' = h
          /\ pc' = IF w = 0 \/ h = 0 THEN "rc_size" ELSE "rc_idle"
    /\ UNCHANGED <<ret, exc, frameNumber, nFrames, fence, pending, frameIndex,
                   iaArmedBy, rfArmedBy, callCount, call, live, made, swapGen,
                   cmdBufAllocated, oplog, lastIdleDrained>>
    /\ UNCHANGED <<caps, extent, frames, scene, missing>>
    /\ UNCHANGED sel
    /\ UNCHANGED <<mapping, pipelineExtent, copy>>

\* vkDeviceWaitIdle(self.__device)
RecreateWaitIdle ==
    /\ pc = "rc_idle"
    /\ DeviceWaitIdle
    /\ oplog' = oplog \o << "vkDeviceWaitIdle" >>
    /\ pc' = "rc_cleanup"
    /\ UNCHANGED <<ret, exc, frameNumber, nFrames, width, height, frameIndex,
                   iaArmedBy, rfArmedBy, callCount, call, live, made, swapGen,
                   cmdBufAllocated>>
    /\ UNCHANGED <<caps, extent, frames, scene, missing>>
    /\ UNCHANGED sel
    /\ UNCHANGED <<mapping, pipelineExtent, copy>>

\* self.__cleanup_swapchain()
RecreateCleanupSwapchain ==
    /\ pc = "rc_cleanup"
    /\ Destroy(CleanupSwapchainKinds, CleanupSwapchainCalls)
    /\ pc' = "rc_swapchain"
    /\ UNCHANGED <<ret, exc, frameNumber, nFrames, width, height, fence, pending,
                   frameIndex, iaArmedBy, rfArmedBy, callCount, call, made,
                   swapGen, cmdBufAllocated, lastIdleDrained>>
    /\ UNCHANGED <<caps, extent, frames, scene, missing>>
    /\ UNCHANGED sel
    /\ mapping' = NoBuffers
    /\ UNCHANGED <<pipelineExtent, copy>>

\* self.__make_swapchain(): a new swapchain, one new SwapChainFrame (image and
\* image view, every other field None) per image the surface hands out, and
\* max_frames_in_flight = len(frames).
RecreateMakeSwapchain ==
    /\ pc = "rc_swapchain"
    /\ \E n \in 1 .. MaxFrames :
          /\ nFrames' = n
          /\ fence' = [s \in 0 .. (n - 1) |-> FALSE]
          /\ iaArmedBy' = [s \in 0 .. (n - 1) |-> 0]
          /\ rfArmedBy' = [s \in 0 .. (n - 1) |-> 0]
          /\ frames' = [s \in 0 .. (n - 1) |-> BareFrame]
    /\ extent' = ChoseSwapchainExtent(caps, width, height)
    /\ swapGen' = swapGen + 1
    /\ Create({"swapchain", "image_views"}, swapGen + 1,
              << "create swapchain", "create image_views" >>)
    /\ pc' = "rc_frame_buffers"
    /\ UNCHANGED <<ret, exc, frameNumber, width, height, pending, frameIndex,
                   callCount, call, cmdBufAllocated, lastIdleDrained>>
    /\ UNCHANGED <<caps, scene, missing>>
    /\ UNCHANGED sel
    /\ UNCHANGED <<mapping, pipelineExtent, copy>>

\* self.__make_frame_buffers(): one frame buffer per frame, on the render pass
\* the engine holds.
RecreateMakeFrameBuffers ==
    /\ pc = "rc_frame_buffers"
    /\ Create({"frame_buffers"}, swapGen, << "create frame_buffers" >>)
    /\ pc' = "rc_cmd_buffers"
    /\ UNCHANGED <<ret, exc, frameNumber, nFrames, width, height, fence, pending,
                   frameIndex, iaArmedBy, rfArmedBy, callCount, call, swapGen,
                   cmdBufAllocated, lastIdleDrained>>
    /\ UNCHANGED <<caps, extent, frames, scene, missing>>
    /\ UNCHANGED sel
    /\ UNCHANGED <<mapping, pipelineExtent, copy>>

\* for frame in frames: frame.command_buffer = make_command_buffer(pool)
RecreateMakeCommandBuffers ==
    /\ pc = "rc_cmd_buffers"
    /\ Create({"cmd_buffers"}, swapGen, << "allocate cmd_buffers" >>)
    /\ cmdBufAllocated' = cmdBufAllocated + nFrames
    /\ frames' = [s \in Slots |-> [frames[s] EXCEPT !.command_buffer = 1]]
    /\ pc' = "rc_resources"
    /\ UNCHANGED <<ret, exc, frameNumber, nFrames, width, height, fence, pending,
                   frameIndex, iaArmedBy, rfArmedBy, callCount, call, swapGen,
                   lastIdleDrained>>
    /\ UNCHANGED <<caps, extent, scene, missing>>
    /\ UNCHANGED sel
    /\ UNCHANGED <<mapping, pipelineExtent, copy>>

\* What __make_frame_resources creates: the descriptor pool, then per frame a
\* signaled fence, two semaphores, the two mapped buffers and a descriptor set.
FrameResourceKinds ==
    {"descriptor_pool", "fences", "semaphores", "uniform_buffers",
     "model_buffers", "descriptor_sets"}

FrameResourceCalls ==
    << "create descriptor_pool", "create fences", "create semaphores",
       "create uniform_buffers", "map uniform_buffers",
       "create model_buffers", "map model_buffers",
       "allocate descriptor_sets" >>

\* self.__make_frame_resources(), the last statement of __recreate_swapchain.
RecreateMakeFrameResources ==
    /\ pc = "rc_resources"
    /\ Create(FrameResourceKinds, swapGen, FrameResourceCalls)
    /\ fence' = [s \in Slots |-> FenceCreatedSignaled]
    /\ frames' = [s \in Slots |->
                     [frames[s] EXCEPT !.fence = 1, !.semaphores = 2]]
    /\ call' = [call EXCEPT !.recreated = TRUE]
    /\ pc' = ret
    /\ UNCHANGED <<ret, exc, frameNumber, nFrames, width, height, pending,
                   frameIndex, iaArmedBy, rfArmedBy, callCount, swapGen,
                   cmdBufAllocated, lastIdleDrained>>
    /\ UNCHANGED <<caps, extent, scene, missing>>
    /\ UNCHANGED sel
    /\ mapping' = MakeDescriptorResources
    /\ UNCHANGED <<pipelineExtent, copy>>

\* ---------------------------------------------------------------- cleanup
\* vkDeviceWaitIdle(self.__device)
CleanupWaitIdle ==
    /\ pc = "cl_idle"
    /\ DeviceWaitIdle
    /\ oplog' = oplog \o << "vkDeviceWaitIdle" >>
    /\ pc' = "cl_command_pool"
    /\ UNCHANGED <<ret, exc, frameNumber, nFrames, width, height, frameIndex,
                   iaArmedBy, rfArmedBy, callCount, call, live, made, swapGen,
                   cmdBufAllocated>>
    /\ UNCHANGED <<caps, extent, frames, scene, missing>>
    /\ UNCHANGED sel
    /\ UNCHANGED <<mapping, pipelineExtent, copy>>

\* vkDestroyCommandPool: the pool and every command buffer allocated from it.
CleanupCommandPool ==
    /\ pc = "cl_command_pool"
    /\ Destroy({"command_pool", "cmd_buffers"}, << "destroy command_pool" >>)
    /\ cmdBufAllocated' = 0
    /\ pc' = "cl_assets"
    /\ UNCHANGED <<ret, exc, frameNumber, nFrames, width, height, fence, pending,
                   frameIndex, iaArmedBy, rfArmedBy, callCount, call, made,
                   swapGen, lastIdleDrained>>
    /\ UNCHANGED <<caps, extent, frames, scene, missing>>
    /\ UNCHANGED sel
    /\ UNCHANGED <<mapping, pipelineExtent, copy>>

\* The material descriptor pool, then the three materials.
CleanupAssets ==
    /\ pc = "cl_assets"
    /\ Destroy({"material_pool", "materials"},
               << "destroy material_pool", "destroy materials" >>)
    /\ pc' = "cl_pipeline"
    /\ UNCHANGED <<ret, exc, frameNumber, nFrames, width, height, fence, pending,
                   frameIndex, iaArmedBy, rfArmedBy, callCount, call, made,
                   swapGen, cmdBufAllocated, lastIdleDrained>>
    /\ UNCHANGED <<caps, extent, frames, scene, missing>>
    /\ UNCHANGED sel
    /\ UNCHANGED <<mapping, pipelineExtent, copy>>

\* vkDestroyPipeline, vkDestroyRenderPass, vkDestroyPipelineLayout.
CleanupPipeline ==
    /\ pc = "cl_pipeline"
    /\ Destroy({"pipeline", "render_pass", "pipeline_layout"},
               << "destroy pipeline", "destroy render_pass",
                  "destroy pipeline_layout" >>)
    /\ pc' = "cl_set_layouts"
    /\ UNCHANGED <<ret, exc, frameNumber, nFrames, width, height, fence, pending,
                   frameIndex, iaArmedBy, rfArmedBy, callCount, call, made,
                   swapGen, cmdBufAllocated, lastIdleDrained>>
    /\ UNCHANGED <<caps, extent, frames, scene, missing>>
    /\ UNCHANGED sel
    /\ UNCHANGED <<mapping, pipelineExtent, copy>>

\* The two descriptor set layouts.
CleanupSetLayouts ==
    /\ pc = "cl_set_layouts"
    /\ Destroy({"frame_dsl", "material_dsl"},
               << "destroy frame_dsl", "destroy material_dsl" >>)
    /\ pc' = "cl_swapchain"
    /\ UNCHANGED <<ret, exc, frameNumber, nFrames, width, height, fence, pending,
                   frameIndex, iaArmedBy, rfArmedBy, callCount, call, made,
                   swapGen, cmdBufAllocated, lastIdleDrained>>
    /\ UNCHANGED <<caps, extent, frames, scene, missing>>
    /\ UNCHANGED sel
    /\ UNCHANGED <<mapping, pipelineExtent, copy>>

\* self.__cleanup_swapchain()
CleanupSwapchain ==
    /\ pc = "cl_swapchain"
    /\ Destroy(CleanupSwapchainKinds, CleanupSwapchainCalls)
    /\ pc' = "cl_meshes"
    /\ UNCHANGED <<ret, exc, frameNumber, nFrames, width, height, fence, pending,
                   frameIndex, iaArmedBy, rfArmedBy, callCount, call, made,
                   swapGen, cmdBufAllocated, lastIdleDrained>>
    /\ UNCHANGED <<caps, extent, frames, scene, missing>>
    /\ UNCHANGED sel
    /\ mapping' = NoBuffers
    /\ UNCHANGED <<pipelineExtent, copy>>

\* The three meshes' vertex buffers.
CleanupMeshes ==
    /\ pc = "cl_meshes"
    /\ Destroy({"meshes"}, << "destroy meshes" >>)
    /\ pc' = "cl_device"
    /\ UNCHANGED <<ret, exc, frameNumber, nFrames, width, height, fence, pending,
                   frameIndex, iaArmedBy, rfArmedBy, callCount, call, made,
                   swapGen, cmdBufAllocated, lastIdleDrained>>
    /\ UNCHANGED <<caps, extent, frames, scene, missing>>
    /\ UNCHANGED sel
    /\ UNCHANGED <<mapping, pipelineExtent, copy>>

\* A cleanup that destroys the device before the swapchain objects and meshes.
CleanupDeviceEarly ==
    /\ pc = "cl_swapchain"
    /\ Destroy({"device"}, << "destroy device" >>)
    /\ pc' = "cl_swapchain_late"
    /\ UNCHANGED <<ret, exc, frameNumber, nFrames, width, height, fence, pending,
                   frameIndex, iaArmedBy, rfArmedBy, callCount, call, made,
                   swapGen, cmdBufAllocated, lastIdleDrained>>
    /\ UNCHANGED <<caps, extent, frames, scene, missing>>
    /\ UNCHANGED sel
    /\ UNCHANGED <<mapping, pipelineExtent, copy>>

\* vkDestroyDevice
CleanupDevice ==
    /\ pc = "cl_device"
    /\ Destroy({"device"}, << "destroy device" >>)
    /\ pc' = "cl_instance"
    /\ UNCHANGED <<ret, exc, frameNumber, nFrames, width, height, fence, pending,
                   frameIndex, iaArmedBy, rfArmedBy, callCount, call, made,
                   swapGen, cmdBufAllocated, lastIdleDrained>>
    /\ UNCHANGED <<caps, extent, frames, scene, missing>>
    /\ UNCHANGED sel
    /\ UNCHANGED <<mapping, pipelineExtent, copy>>

\* destroy_surface, destroy_debug_messenger (DEBUG is True), vkDestroyInstance.
CleanupInstance ==
    /\ pc = "cl_instance"
    /\ Destroy({"surface", "debug_messenger", "instance"},
               << "destroy surface", "destroy debug_messenger",
                  "destroy instance" >>)
    /\ pc' = "cl_window"
    /\ UNCHANGED <<ret, exc, frameNumber, nFrames, width, height, fence, pending,
                   frameIndex, iaArmedBy, rfArmedBy, callCount, call, made,
                   swapGen, cmdBufAllocated, lastIdleDrained>>
    /\ UNCHANGED <<caps, extent, frames, scene, missing>>
    /\ UNCHANGED sel
    /\ UNCHANGED <<mapping, pipelineExtent, copy>>

\* glfw_terminate(); the process then exits.
CleanupWindow ==
    /\ pc = "cl_window"
    /\ Destroy({"window"}, << "glfw_terminate" >>)
    /\ pc' = "exited"
    /\ UNCHANGED <<ret, exc, frameNumber, nFrames, width, height, fence, pending,
                   frameIndex, iaArmedBy, rfArmedBy, callCount, call, made,
                   swapGen, cmdBufAllocated, lastIdleDrained>>
    /\ UNCHANGED <<caps, extent, frames, scene, missing>>
    /\ UNCHANGED sel
    /\ UNCHANGED <<mapping, pipelineExtent, copy>>

Next ==
    \/ RenderCall
    \/ WindowClose
    \/ WaitForFencesOk
    \/ WaitForFencesTimeout
    \/ ResetFences
    \/ AcquireSuccess
    \/ AcquireOutOfDate
    \/ AcquireRaises
    \/ SelectFrame
    \/ ResetCommandBuffer
    \/ PrepareFrame
    \/ RecordDrawCommand
    \/ QueueSubmitOk
    \/ QueueSubmitFails
    \/ QueuePresentOk
    \/ QueuePresentOutOfDate
    \/ QueuePresentSuboptimal
    \/ Advance
    \/ GpuComplete
    \/ RecreateWaitSize
    \/ RecreateWaitIdle
    \/ RecreateCleanupSwapchain
    \/ RecreateMakeSwapchain
    \/ RecreateMakeFrameBuffers
    \/ RecreateMakeCommandBuffers
    \/ RecreateMakeFrameResources
    \/ CleanupWaitIdle
    \/ CleanupCommandPool
    \/ CleanupAssets
    \/ CleanupPipeline
    \/ CleanupSetLayouts
    \/ CleanupSwapchain
    \/ CleanupMeshes
    \/ CleanupDevice
    \/ CleanupInstance
    \/ CleanupWindow

Spec == Init /\ [][Next]_vars

\* The statements of render() outside __recreate_swapchain.  The CPU thread
\* runs them one after the other: a statement that can be executed is
\* executed.
RenderStep ==
    \/ WaitForFencesOk
    \/ WaitForFencesTimeout
    \/ ResetFences
    \/ AcquireSuccess
    \/ AcquireOutOfDate
    \/ AcquireRaises
    \/ SelectFrame
    \/ ResetCommandBuffer
    \/ PrepareFrame
    \/ RecordDrawCommand
    \/ QueueSubmitOk
    \/ QueueSubmitFails
    \/ QueuePresentOk
    \/ QueuePresentOutOfDate
    \/ QueuePresentSuboptimal
    \/ Advance

\* The run loop up to the first entry into __recreate_swapchain, the GPU
\* finishing submissions when it likes.
LiveNext ==
    \/ RenderCall
    \/ RenderStep
    \/ GpuComplete

\* The same with a CPU thread that keeps running.
LiveSpec == Init /\ [][LiveNext]_vars /\ WF_vars(RenderStep)

\* ------------------------------------------- one recreation, any surface
\* The first render() call has waited for and reset the fence of slot 0, its
\* vkAcquireNextImageKHR has raised VkErrorOutOfDateKhr and
\* __recreate_swapchain has just zeroed width and height; the surface reports
\* any extent limits, and the swapchain in use was made under whatever limits
\* the surface reported then.
RecreateInit ==
    /\ pc = "rc_size"
    /\ ret = "frame"
    /\ exc = "none"
    /\ frameNumber = 0
    /\ nFrames \in 1 .. MaxFrames
    /\ width = 0
    /\ height = 0
    /\ fence = [s \in 0 .. (nFrames - 1) |-> s # 0]
    /\ pending = {}
    /\ frameIndex = Unbound
    /\ iaArmedBy = [s \in 0 .. (nFrames - 1) |-> 0]
    /\ rfArmedBy = [s \in 0 .. (nFrames - 1) |-> 0]
    /\ callCount = 1
    /\ call = [NewCall EXCEPT !.fenceReset = TRUE, !.acquire = "out_of_date"]
    /\ live = AllKinds
    /\ made = [k \in AllKinds |-> 1]
    /\ swapGen = 1
    /\ cmdBufAllocated = nFrames + 1
    /\ oplog = << >>
    /\ lastIdleDrained = 0
    /\ caps \in SurfaceCapabilities
    /\ extent \in { ChoseSwapchainExtent(c, w, h) :
                        c \in SurfaceCapabilities,
                        w \in 1 .. MaxDim, h \in 1 .. MaxDim }
    /\ frames = [s \in 0 .. (nFrames - 1) |->
                    [ command_buffer |-> 1, semaphores |-> 2, fence |-> 1 ]]
    /\ scene = DefaultScene
    /\ missing = {}
    /\ sel = NoCall
    /\ copy = NoCopy
    /\ mapping = MakeDescriptorResources
    /\ pipelineExtent = extent

RecreateNext ==
    \/ RecreateWaitSize
    \/ RecreateWaitIdle
    \/ RecreateCleanupSwapchain
    \/ RecreateMakeSwapchain
    \/ RecreateMakeFrameBuffers
    \/ RecreateMakeCommandBuffers
    \/ RecreateMakeFrameResources
    \/ SelectFrame

RecreateSpec == RecreateInit /\ [][RecreateNext]_vars

\* ------------------------------------------------------- Engine.__init__
\* Engine.__init__ from self.__make_swapchain() on.  A creation helper that
\* catches (VkError, VkException) logs the failure and returns None: the kind
\* joins `missing` and __init__ goes on.  A helper that catches nothing lets
\* the exception leave __init__.
SetupInit ==
    /\ pc = "su_swapchain"
    /\ ret = "none"
    /\ exc = "none"
    /\ frameNumber = 0
    /\ nFrames = 0
    /\ width = MaxDim
    /\ height = MaxDim
    /\ fence = << >>
    /\ pending = {}
    /\ frameIndex = Unbound
    /\ iaArmedBy = << >>
    /\ rfArmedBy = << >>
    /\ callCount = 0
    /\ call = NewCall
    /\ live = {"window", "instance", "debug_messenger", "surface", "device"}
    /\ made = [k \in AllKinds |->
                  IF k \in {"window", "instance", "debug_messenger", "surface",
                            "device"} THEN 1 ELSE 0]
    /\ swapGen = 0
    /\ cmdBufAllocated = 0
    /\ oplog = << >>
    /\ lastIdleDrained = 0
    /\ caps = [ minW |-> 1, maxW |-> MaxDim, minH |-> 1, maxH |-> MaxDim ]
    /\ extent = [ width |-> 0, height |-> 0 ]
    /\ frames = << >>
    /\ scene = DefaultScene
    /\ missing = {}
    /\ sel = NoCall
    /\ copy = NoCopy
    /\ mapping = NoBuffers
    /\ pipelineExtent = [ width |-> 0, height |-> 0 ]

\* The helpers for `kinds` run; those in `failed` log and return None.
SetupCreate(kinds, failed) ==
    /\ live' = live \cup (kinds \ failed)
    /\ made' = [k \in AllKinds |-> IF k \in kinds \ failed THEN 1 ELSE made[k]]
    /\ missing' = missing \cup failed

\* self.__make_swapchain(): make_swapchain has no try/except, so a failing
\* vkCreateSwapchainKHR raises out of __init__.
SetupMakeSwapchain ==
    /\ pc = "su_swapchain"
    /\ \/ /\ \E n \in 1 .. MaxFrames :
                /\ nFrames' = n
                /\ fence' = [s \in 0 .. (n - 1) |-> FALSE]
                /\ iaArmedBy' = [s \in 0 .. (n - 1) |-> 0]
                /\ rfArmedBy' = [s \in 0 .. (n - 1) |-> 0]
                /\ frames' = [s \in 0 .. (n - 1) |-> BareFrame]
          /\ extent' = ChoseSwapchainExtent(caps, width, height)
          /\ swapGen' = 1
          /\ SetupCreate({"swapchain", "image_views"}, {})
          /\ pc' = "su_pipeline"
          /\ exc' = exc
       \/ /\ Raise("VkError")
          /\ UNCHANGED <<nFrames, fence, iaArmedBy, rfArmedBy, frames, extent,
                         swapGen, live, made, missing>>
    /\ UNCHANGED <<ret, frameNumber, width, height, pending, frameIndex,
                   callCount, call, cmdBufAllocated, oplog, lastIdleDrained,
                   caps, scene>>
    /\ UNCHANGED sel
    /\ UNCHANGED <<mapping, pipelineExtent, copy>>

\* self.__make_descriptor_set_layouts() (failure logged, None returned), then
\* self.__make_graphics_pipeline() (nothing caught).
SetupMakePipeline ==
    /\ pc = "su_pipeline"
    /\ \/ /\ \E failed \in SUBSET {"frame_dsl", "material_dsl"} :
                SetupCreate({"frame_dsl", "material_dsl", "pipeline_layout",
                             "render_pass", "pipeline"}, failed)
          /\ pipelineExtent' = extent
          /\ pc' = "su_frame_buffers"
          /\ exc' = exc
       \/ /\ Raise("VkError")
          /\ UNCHANGED <<live, made, missing, pipelineExtent>>
    /\ UNCHANGED <<ret, frameNumber, nFrames, width, height, fence, pending,
                   frameIndex, iaArmedBy, rfArmedBy, callCount, call, swapGen,
                   cmdBufAllocated, oplog, lastIdleDrained, caps, extent,
                   frames, scene>>
    /\ UNCHANGED sel
    /\ UNCHANGED <<mapping, copy>>

\* self.__make_frame_buffers(): make_frame_buffers logs a failed
\* vkCreateFramebuffer and leaves frame.frame_buffer None.
SetupMakeFrameBuffers ==
    /\ pc = "su_frame_buffers"
    /\ \E failed \in SUBSET {"frame_buffers"} :
          SetupCreate({"frame_buffers"}, failed)
    /\ pc' = "su_commands"
    /\ UNCHANGED <<ret, exc, frameNumber, nFrames, width, height, fence, pending,
                   frameIndex, iaArmedBy, rfArmedBy, callCount, call, swapGen,
                   cmdBufAllocated, oplog, lastIdleDrained, caps, extent,
                   frames, scene>>
    /\ UNCHANGED sel
    /\ UNCHANGED <<mapping, pipelineExtent, copy>>

\* self.__make_commands(): make_command_pool and make_command_buffer log a
\* failure and return None.
SetupMakeCommands ==
    /\ pc = "su_commands"
    /\ \E failed \in SUBSET {"command_pool", "cmd_buffers"} :
          /\ SetupCreate({"command_pool", "cmd_buffers"}, failed)
          /\ cmdBufAllocated' =
                IF "cmd_buffers" \in failed THEN 0 ELSE nFrames + 1
          /\ frames' = [s \in Slots |->
                [frames[s] EXCEPT !.command_buffer =
                    IF "cmd_buffers" \in failed THEN 0 ELSE 1]]
    /\ pc' = "su_frame_resources"
    /\ UNCHANGED <<ret, exc, frameNumber, nFrames, width, height, fence, pending,
                   frameIndex, iaArmedBy, rfArmedBy, callCount, call, swapGen,
                   oplog, lastIdleDrained, caps, extent, scene>>
    /\ UNCHANGED sel
    /\ UNCHANGED <<mapping, pipelineExtent, copy>>

\* self.__make_frame_resources(): make_descriptor_pool, make_fence,
\* make_semaphore and allocate_descriptor_set log a failure and return None.
SetupMakeFrameResources ==
    /\ pc = "su_frame_resources"
    /\ \E failed \in SUBSET {"descriptor_pool", "fences", "semaphores",
                              "descriptor_sets"} :
          /\ SetupCreate(FrameResourceKinds, failed)
          /\ fence' = [s \in Slots |->
                          "fences" \notin failed /\ FenceCreatedSignaled]
          /\ frames' = [s \in Slots |->
                [frames[s] EXCEPT
                    !.fence = IF "fences" \in failed THEN 0 ELSE 1,
                    !.semaphores = IF "semaphores" \in failed THEN 0 ELSE 2]]
    /\ pc' = "su_assets"
    /\ UNCHANGED <<ret, exc, frameNumber, nFrames, width, height, pending,
                   frameIndex, iaArmedBy, rfArmedBy, callCount, call, swapGen,
                   cmdBufAllocated, oplog, lastIdleDrained, caps, extent,
                   scene>>
    /\ UNCHANGED sel
    /\ mapping' = MakeDescriptorResources
    /\ UNCHANGED <<pipelineExtent, copy>>

\* self.__make_assets(): the three meshes and their materials; __init__
\* returns and SpaceGPS.run starts.
SetupMakeAssets ==
    /\ pc = "su_assets"
    /\ SetupCreate({"meshes", "material_pool", "materials"}, {})
    /\ pc' = "loop"
    /\ UNCHANGED <<ret, exc, frameNumber, nFrames, width, height, fence, pending,
                   frameIndex, iaArmedBy, rfArmedBy, callCount, call, swapGen,
                   cmdBufAllocated, oplog, lastIdleDrained, caps, extent,
                   frames, scene>>
    /\ UNCHANGED sel
    /\ UNCHANGED <<mapping, pipelineExtent, copy>>

SetupNext ==
    \/ SetupMakeSwapchain
    \/ SetupMakePipeline
    \/ SetupMakeFrameBuffers
    \/ SetupMakeCommands
    \/ SetupMakeFrameResources
    \/ SetupMakeAssets
    \/ RenderCall

SetupSpec == SetupInit /\ [][SetupNext]_vars

\* ------------------------------------------ one frame's table, any scene
\* The first render() call has acquired an image and reset its command
\* buffer; the scene it was given has position lists of any length in
\* InstanceCounts.
TableInit ==
    /\ pc = "prepare"
    /\ ret = "none"
    /\ exc = "none"
    /\ frameNumber = 0
    /\ nFrames \in 1 .. MaxFrames
    /\ width = MaxDim
    /\ height = MaxDim
    /\ fence = [s \in 0 .. (nFrames - 1) |-> s # 0]
    /\ pending = {}
    /\ frameIndex \in { << i >> : i \in 0 .. (nFrames - 1) }
    /\ iaArmedBy = [s \in 0 .. (nFrames - 1) |-> IF s = 0 THEN 1 ELSE 0]
    /\ rfArmedBy = [s \in 0 .. (nFrames - 1) |-> 0]
    /\ callCount = 1
    /\ call = [NewCall EXCEPT !.fenceReset = TRUE, !.acquire = "success"]
    /\ live = AllKinds
    /\ made = [k \in AllKinds |-> 1]
    /\ swapGen = 1
    /\ cmdBufAllocated = nFrames + 1
    /\ oplog = << >>
    /\ lastIdleDrained = 0
    /\ caps = [ minW |-> 1, maxW |-> MaxDim, minH |-> 1, maxH |-> MaxDim ]
    /\ extent = ChoseSwapchainExtent(caps, width, height)
    /\ frames = [s \in 0 .. (nFrames - 1) |->
                    [ command_buffer |-> 1, semaphores |-> 2, fence |-> 1 ]]
    /\ scene \in Scenes
    /\ missing = {}
    /\ sel = NoCall
    /\ copy = NoCopy
    /\ mapping = MakeDescriptorResources
    /\ pipelineExtent = extent

TableNext ==
    \/ PrepareFrame
    \/ RecordDrawCommand

TableSpec == TableInit /\ [][TableNext]_vars

\* ------------------------------------ recreation with failing creations
\* One render() call on the engine as constructed, with the creation helpers
\* of __recreate_swapchain able to fail as those of Engine.__init__ are: a
\* helper that catches (VkError, VkException) logs and returns None,
\* make_swapchain raises.  Every fence is signaled when the call starts, so
\* its fence wait returns at once.

\* SpaceGPS.run has just called render() for the first time.
RebuildInit ==
    /\ pc = "wait_fence"
    /\ ret = "none"
    /\ exc = "none"
    /\ frameNumber = 0
    /\ nFrames \in 1 .. MaxFrames
    /\ width = MaxDim
    /\ height = MaxDim
    /\ fence = [s \in 0 .. (nFrames - 1) |-> FenceCreatedSignaled]
    /\ pending = {}
    /\ frameIndex = Unbound
    /\ iaArmedBy = [s \in 0 .. (nFrames - 1) |-> 0]
    /\ rfArmedBy = [s \in 0 .. (nFrames - 1) |-> 0]
    /\ callCount = 1
    /\ call \in { [NewCall EXCEPT !.resize = r] : r \in BOOLEAN }
    /\ live = AllKinds
    /\ made = [k \in AllKinds |-> 1]
    /\ swapGen = 1
    /\ cmdBufAllocated = nFrames + 1
    /\ oplog = << >>
    /\ lastIdleDrained = 0
    /\ caps = [ minW |-> 1, maxW |-> MaxDim, minH |-> 1, maxH |-> MaxDim ]
    /\ extent = ChoseSwapchainExtent(caps, width, height)
    /\ frames = [s \in 0 .. (nFrames - 1) |->
                    [ command_buffer |-> 1, semaphores |-> 2, fence |-> 1 ]]
    /\ scene = DefaultScene
    /\ missing = {}
    /\ sel = NoCall
    /\ copy = NoCopy
    /\ mapping = MakeDescriptorResources
    /\ pipelineExtent = extent

\* The helpers for `kinds` run for the swapchain of generation gen; those in
\* `failed` log and return None.
RebuildCreate(kinds, failed, gen, calls) ==
    /\ live' = live \cup (kinds \ failed)
    /\ made' = [k \in AllKinds |-> IF k \in kinds \ failed THEN gen ELSE made[k]]
    /\ missing' = missing \cup failed
    /\ oplog' = oplog \o calls

\* self.__make_swapchain() in __recreate_swapchain: make_swapchain has no
\* try/except, so a failing vkCreateSwapchainKHR raises out of render().
RebuildMakeSwapchain ==
    /\ pc = "rc_swapchain"
    /\ \/ /\ \E n \in 1 .. MaxFrames :
                /\ nFrames' = n
                /\ fence' = [s \in 0 .. (n - 1) |-> FALSE]
                /\ iaArmedBy' = [s \in 0 .. (n - 1) |-> 0]
                /\ rfArmedBy' = [s \in 0 .. (n - 1) |-> 0]
                /\ frames' = [s \in 0 .. (n - 1) |-> BareFrame]
          /\ extent' = ChoseSwapchainExtent(caps, width, height)
          /\ swapGen' = swapGen + 1
          /\ RebuildCreate({"swapchain", "image_views"}, {}, swapGen + 1,
                           << "create swapchain", "create image_views" >>)
          /\ pc' = "rc_frame_buffers"
          /\ exc' = exc
       \/ /\ Raise("VkError")
          /\ UNCHANGED <<nFrames, fence, iaArmedBy, rfArmedBy, frames, extent,
                         swapGen, live, made, missing, oplog>>
    /\ UNCHANGED <<ret, frameNumber, width, height, pending, frameIndex,
                   callCount, call, cmdBufAllocated, lastIdleDrained>>
    /\ UNCHANGED <<caps, scene>>
    /\ UNCHANGED sel
    /\ UNCHANGED <<mapping, pipelineExtent, copy>>

\* self.__make_frame_buffers() in __recreate_swapchain.
RebuildMakeFrameBuffers ==
    /\ pc = "rc_frame_buffers"
    /\ \E failed \in SUBSET {"frame_buffers"} :
          RebuildCreate({"frame_buffers"}, failed, swapGen,
                        << "create frame_buffers" >>)
    /\ pc' = "rc_cmd_buffers"
    /\ UNCHANGED <<ret, exc, frameNumber, nFrames, width, height, fence, pending,
                   frameIndex, iaArmedBy, rfArmedBy, callCount, call, swapGen,
                   cmdBufAllocated, lastIdleDrained>>
    /\ UNCHANGED <<caps, extent, frames, scene>>
    /\ UNCHANGED sel
    /\ UNCHANGED <<mapping, pipelineExtent, copy>>

\* for frame in frames: frame.command_buffer = make_command_buffer(pool),
\* in __recreate_swapchain.
RebuildMakeCommandBuffers ==
    /\ pc = "rc_cmd_buffers"
    /\ \E failed \in SUBSET {"cmd_buffers"} :
          /\ RebuildCreate({"cmd_buffers"}, failed, swapGen,
                           << "allocate cmd_buffers" >>)
          /\ cmdBufAllocated' =
                IF "cmd_buffers" \in failed THEN cmdBufAllocated
                                            ELSE cmdBufAllocated + nFrames
          /\ frames' = [s \in Slots |->
                [frames[s] EXCEPT !.command_buffer =
                    IF "cmd_buffers" \in failed THEN 0 ELSE 1]]
    /\ pc' = "rc_resources"
    /\ UNCHANGED <<ret, exc, frameNumber, nFrames, width, height, fence, pending,
                   frameIndex, iaArmedBy, rfArmedBy, callCount, call, swapGen,
                   lastIdleDrained>>
    /\ UNCHANGED <<caps, extent, scene>>
    /\ UNCHANGED sel
    /\ UNCHANGED <<mapping, pipelineExtent, copy>>

\* self.__make_frame_resources(), the last statement of
\* __recreate_swapchain.
RebuildMakeFrameResources ==
    /\ pc = "rc_resources"
    /\ \E failed \in SUBSET {"descriptor_pool", "fences", "semaphores",
                              "descriptor_sets"} :
          /\ RebuildCreate(FrameResourceKinds, failed, swapGen,
                           FrameResourceCalls)
          /\ fence' = [s \in Slots |->
                          "fences" \notin failed /\ FenceCreatedSignaled]
          /\ frames' = [s \in Slots |->
                [frames[s] EXCEPT
                    !.fence = IF "fences" \in failed THEN 0 ELSE 1,
                    !.semaphores = IF "semaphores" \in failed THEN 0 ELSE 2]]
    /\ call' = [call EXCEPT !.recreated = TRUE]
    /\ pc' = ret
    /\ UNCHANGED <<ret, exc, frameNumber, nFrames, width, height, pending,
                   frameIndex, iaArmedBy, rfArmedBy, callCount, swapGen,
                   cmdBufAllocated, lastIdleDrained>>
    /\ UNCHANGED <<caps, extent, scene>>
    /\ UNCHANGED sel
    /\ mapping' = MakeDescriptorResources
    /\ UNCHANGED <<pipelineExtent, copy>>

RebuildNext ==
    \/ WaitForFencesOk
    \/ ResetFences
    \/ AcquireSuccess
    \/ AcquireOutOfDate
    \/ AcquireRaises
    \/ SelectFrame
    \/ ResetCommandBuffer
    \/ PrepareFrame
    \/ RecordDrawCommand
    \/ QueueSubmitOk
    \/ QueueSubmitFails
    \/ QueuePresentOk
    \/ QueuePresentOutOfDate
    \/ QueuePresentSuboptimal
    \/ Advance
    \/ GpuComplete
    \/ RecreateWaitSize
    \/ RecreateWaitIdle
    \/ RecreateCleanupSwapchain
    \/ RebuildMakeSwapchain
    \/ RebuildMakeFrameBuffers
    \/ RebuildMakeCommandBuffers
    \/ RebuildMakeFrameResources

RebuildSpec == RebuildInit /\ [][RebuildNext]_vars

\* ------------------------------------------------- copy_buffer alone
\* _buffers.copy_buffer and the CommandBufferManager of _commands.py it
\* uses, constructed with a queue.  Every Vulkan call that returns a result
\* may fail, and the body of the with statement may raise.

\* Everything but `sel` and `copy`: the selection helpers and copy_buffer
\* read and write none of it.
engineVars ==
    <<pc, ret, exc, frameNumber, nFrames, width, height, fence, pending,
      frameIndex, iaArmedBy, rfArmedBy, callCount, call, live, made, swapGen,
      cmdBufAllocated, oplog, lastIdleDrained, caps, extent, frames, scene,
      missing, mapping, pipelineExtent>>

\* Sizes copy_buffer is called with.
CopySizes == 1 .. (MaxInstances + 1)

\* copy_buffer is called: vkAllocateCommandBuffers hands out the temporary
\* command buffer.
CopyBufferCall ==
    /\ copy.pc \in {"idle", "done", "raised"}
    /\ \E n \in CopySizes :
          copy' = [NoCopy EXCEPT !.pc = "enter", !.size = n,
                                 !.allocated = TRUE]
    /\ UNCHANGED <<engineVars, sel>>

\* CommandBufferManager.__enter__: vkBeginCommandBuffer; a failure is raised
\* as CommandRecordError, which leaves copy_buffer (__exit__ is not called
\* when __enter__ raises).
CopyEnter ==
    /\ copy.pc = "enter"
    /\ \/ copy' = [copy EXCEPT !.pc = "body",
                                !.cmds = << "vkBeginCommandBuffer" >>]
       \/ copy' = [copy EXCEPT !.pc = "raised",
                                !.exc = "CommandRecordError"]
    /\ UNCHANGED <<engineVars, sel>>

\* The body of the with statement: VkBufferCopy and vkCmdCopyBuffer.  When
\* it raises, python calls __exit__ with the exception.
CopyBody ==
    /\ copy.pc = "body"
    /\ \/ copy' = [copy EXCEPT !.pc = "exit_end",
                                !.cmds = Append(copy.cmds, "vkCmdCopyBuffer")]
       \/ copy' = [copy EXCEPT !.pc = "exit_end", !.bodyRaised = TRUE]
    /\ UNCHANGED <<engineVars, sel>>

\* CommandBufferManager.__exit__, first statement: vkEndCommandBuffer,
\* whatever exc_type is; a failure is raised as CommandRecordError.
CopyExitEnd ==
    /\ copy.pc = "exit_end"
    /\ \/ copy' = [copy EXCEPT !.pc = "exit_submit", !.ended = TRUE,
                                !.cmds = Append(copy.cmds, "vkEndCommandBuffer")]
       \/ copy' = [copy EXCEPT !.pc = "raised",
                                !.exc = "CommandRecordError"]
    /\ UNCHANGED <<engineVars, sel>>

\* __exit__, "if self.__queue is not None": vkQueueSubmit, whatever exc_type
\* is; nothing catches its failure.
CopyExitSubmit ==
    /\ copy.pc = "exit_submit"
    /\ \/ copy' = [copy EXCEPT !.pc = "exit_wait", !.submitted = TRUE]
       \/ copy' = [copy EXCEPT !.pc = "raised", !.exc = "VkError"]
    /\ UNCHANGED <<engineVars, sel>>

\* __exit__: vkQueueWaitIdle, then the implicit return None: an exception of
\* the body goes on out of copy_buffer, otherwise the statement after the
\* with block is next.
CopyExitWaitIdle ==
    /\ copy.pc = "exit_wait"
    /\ \/ copy' = IF copy.bodyRaised
                      THEN [copy EXCEPT !.pc = "raised", !.exc = "body"]
                      ELSE [copy EXCEPT !.pc = "free"]
       \/ copy' = [copy EXCEPT !.pc = "raised", !.exc = "VkError"]
    /\ UNCHANGED <<engineVars, sel>>

\* vkFreeCommandBuffers, the last statement of copy_buffer.
CopyFree ==
    /\ copy.pc = "free"
    /\ copy' = [copy EXCEPT !.pc = "done", !.allocated = FALSE]
    /\ UNCHANGED <<engineVars, sel>>

CopyNext ==
    \/ CopyBufferCall
    \/ CopyEnter
    \/ CopyBody
    \/ CopyExitEnd
    \/ CopyExitSubmit
    \/ CopyExitWaitIdle
    \/ CopyFree

CopySpec == Init /\ [][CopyNext]_vars

\* --------------------------------------------- the selection helpers alone
\* Window widths and heights a helper may be given.
RequestedDims == 0 .. (MaxDim + 1)

\* minImageCount and maxImageCount of the surface capabilities;
\* maxImageCount = 0 says there is no upper limit.
ImageCountLimits ==
    { k \in [ minImageCount : 1 .. MaxFrames,
              maxImageCount : 0 .. (MaxFrames + 1) ] :
         k.maxImageCount = 0 \/ k.minImageCount <= k.maxImageCount }

\* _utils.clamp: min(min_, max(value, max_)).
Clamp(min_, value, max_) == Min(min_, Max(value, max_))

\* _swapchain._chose_extent: clamp of the width and of the height.
ChoseExtent(w, h, c) ==
    [ width  |-> Clamp(c.minW, w, c.maxW),
      height |-> Clamp(c.minH, h, c.maxH) ]

\* An image count that grows with every swapchain made.
ChoseImageCountGrowing(k) ==
    IF sel.fn = "make_swapchain"
       THEN sel.out.image_count + 1
       ELSE Min(k.maxImageCount, k.minImageCount + 1)

\* The image count of _chose_swapchain_extent (swapchain.py).
ChoseImageCount(k) == Min(k.maxImageCount, k.minImageCount + 1)

\* The image count of create_swapchain (_swapchain.py): minImageCount + 1,
\* replaced by maxImageCount when 0 < maxImageCount < minImageCount + 1.
CreateSwapchainImageCount(k) ==
    IF 0 < k.maxImageCount /\ k.maxImageCount < k.minImageCount + 1
       THEN k.maxImageCount
       ELSE k.minImageCount + 1

\* clamp(min_, value, max_) is called.
CallClamp ==
    /\ sel.fn = "none"
    /\ \E min_ \in RequestedDims, value \in RequestedDims, max_ \in RequestedDims :
          sel' = [ fn   |-> "clamp",
                   args |-> [ min_ |-> min_, value |-> value, max_ |-> max_ ],
                   out  |-> Clamp(min_, value, max_) ]
    /\ UNCHANGED engineVars
    /\ UNCHANGED copy

\* _chose_swapchain_extent (swapchain.py, the one make_swapchain calls) is
\* called for a window size and the capabilities the surface reports.
CallChoseSwapchainExtent ==
    /\ sel.fn = "none"
    /\ \E c \in SurfaceCapabilities, k \in ImageCountLimits,
          w \in RequestedDims, h \in RequestedDims :
          sel' = [ fn   |-> "_chose_swapchain_extent",
                   args |-> [ width |-> w, height |-> h, caps |-> c,
                              counts |-> k ],
                   out  |-> [ extent |-> ChoseSwapchainExtent(c, w, h),
                              image_count |-> ChoseImageCount(k) ] ]
    /\ UNCHANGED engineVars
    /\ UNCHANGED copy

\* create_swapchain (_swapchain.py) choses its extent with _chose_extent and
\* its image count.
CallCreateSwapchain ==
    /\ sel.fn = "none"
    /\ \E c \in SurfaceCapabilities, k \in ImageCountLimits,
          w \in RequestedDims, h \in RequestedDims :
          sel' = [ fn   |-> "create_swapchain",
                   args |-> [ width |-> w, height |-> h, caps |-> c,
                              counts |-> k ],
                   out  |-> [ extent |-> ChoseExtent(w, h, c),
                              image_count |-> CreateSwapchainImageCount(k) ] ]
    /\ UNCHANGED engineVars
    /\ UNCHANGED copy

\* The longest list of present modes or surface formats a surface reports.
MaxList == 2

\* The non-empty lists of at most MaxList elements of S.
Lists(S) == UNION { [ 1 .. n -> S ] : n \in 1 .. MaxList }

\* m is an element of the list.
Listed(m, list) == \E i \in DOMAIN list : list[i] = m

\* VkPresentModeKHR values.
PresentModes == { "IMMEDIATE", "MAILBOX", "FIFO" }

\* What vkGetPhysicalDeviceSurfacePresentModesKHR may return: Vulkan requires
\* every surface to support VK_PRESENT_MODE_FIFO_KHR.
PresentModeLists == { l \in Lists(PresentModes) : Listed("FIFO", l) }

\* _chose_swapchain_surface_present_mode (swapchain.py): mailbox when it is
\* listed, the constant VK_PRESENT_MODE_FIFO_KHR otherwise.
ChoseSwapchainSurfacePresentMode(present_modes) ==
    IF Listed("MAILBOX", present_modes) THEN "MAILBOX" ELSE "FIFO"

\* _chose_present_mode (_swapchain.py): mailbox when it is listed, the first
\* listed mode otherwise.
ChosePresentMode(available_present_modes) ==
    IF Listed("MAILBOX", available_present_modes)
       THEN "MAILBOX"
       ELSE available_present_modes[1]

\* VkSurfaceFormatKHR values: a format and a color space.
SurfaceFormats ==
    [ format     : { "B8G8R8A8_SRGB", "B8G8R8A8_UNORM" },
      colorSpace : { "SRGB_NONLINEAR", "EXTENDED_SRGB_LINEAR" } ]

\* _chose_swapchain_surface_format (swapchain.py): B8G8R8A8_UNORM with the
\* sRGB-nonlinear color space when it is listed, the first format otherwise.
ChoseSwapchainSurfaceFormat(formats) ==
    LET wanted == [ format |-> "B8G8R8A8_UNORM",
                    colorSpace |-> "SRGB_NONLINEAR" ]
    IN  IF Listed(wanted, formats) THEN wanted ELSE formats[1]

\* _chose_surface_format (_swapchain.py): B8G8R8A8_SRGB with the
\* sRGB-nonlinear color space when it is listed, the first format otherwise.
ChoseSurfaceFormat(available_formats) ==
    LET wanted == [ format |-> "B8G8R8A8_SRGB",
                    colorSpace |-> "SRGB_NONLINEAR" ]
    IN  IF Listed(wanted, available_formats)
           THEN wanted
           ELSE available_formats[1]

\* _chose_swapchain_surface_present_mode is called.
CallChoseSwapchainSurfacePresentMode ==
    /\ sel.fn = "none"
    /\ \E l \in PresentModeLists :
          sel' = [ fn   |-> "_chose_swapchain_surface_present_mode",
                   args |-> [ modes |-> l ],
                   out  |-> ChoseSwapchainSurfacePresentMode(l) ]
    /\ UNCHANGED engineVars
    /\ UNCHANGED copy

\* _chose_present_mode is called.
CallChosePresentMode ==
    /\ sel.fn = "none"
    /\ \E l \in PresentModeLists :
          sel' = [ fn   |-> "_chose_present_mode",
                   args |-> [ modes |-> l ],
                   out  |-> ChosePresentMode(l) ]
    /\ UNCHANGED engineVars
    /\ UNCHANGED copy

\* _chose_swapchain_surface_format is called.
CallChoseSwapchainSurfaceFormat ==
    /\ sel.fn = "none"
    /\ \E l \in Lists(SurfaceFormats) :
          sel' = [ fn   |-> "_chose_swapchain_surface_format",
                   args |-> [ formats |-> l ],
                   out  |-> ChoseSwapchainSurfaceFormat(l) ]
    /\ UNCHANGED engineVars
    /\ UNCHANGED copy

\* _chose_surface_format is called.
CallChoseSurfaceFormat ==
    /\ sel.fn = "none"
    /\ \E l \in Lists(SurfaceFormats) :
          sel' = [ fn   |-> "_chose_surface_format",
                   args |-> [ formats |-> l ],
                   out  |-> ChoseSurfaceFormat(l) ]
    /\ UNCHANGED engineVars
    /\ UNCHANGED copy

\* VkMemoryPropertyFlagBits values.
MemoryProperties == { "DEVICE_LOCAL", "HOST_VISIBLE", "HOST_COHERENT" }

\* What make_descriptor_resources requests for the uniform and the storage
\* buffer of a frame.
RequestedProperties == { "HOST_COHERENT", "HOST_VISIBLE" }

\* memoryTypes of vkGetPhysicalDeviceMemoryProperties: the property flags
\* of each memory type, a bit mask as the set of its bits.
MemoryTypeLists == Lists(SUBSET MemoryProperties)

\* The least element of a non-empty set of numbers.
First(S) == CHOOSE i \in S : \A j \in S : i <= j

\* memory._find_memory_type_index: the first type i whose bit is set in
\* supported_memory_indices and whose flags share a bit with the requested
\* ones; 0 when there is none.  Bit i of a mask is membership of i.
FindMemoryTypeIndex(types, supported_memory_indices, requested_properties) ==
    LET hits == { i \in 0 .. (Len(types) - 1) :
                    /\ i \in supported_memory_indices
                    /\ types[i + 1] \cap requested_properties # {} }
    IN  IF hits # {} THEN [ raised |-> FALSE, index |-> First(hits) ]
                     ELSE [ raised |-> FALSE, index |-> 0 ]

\* _buffers._find_memory_type: the first type i whose bit is set in
\* type_filter and whose flags contain all of properties;
\* NoValidMemoryTypeError when there is none.
FindMemoryType(types, type_filter, properties) ==
    LET hits == { i \in 0 .. (Len(types) - 1) :
                    /\ i \in type_filter
                    /\ types[i + 1] \cap properties = properties }
    IN  IF hits # {} THEN [ raised |-> FALSE, index |-> First(hits) ]
                     ELSE [ raised |-> TRUE, index |-> -1 ]

\* _allocate_buffer_memory calls _find_memory_type_index with the
\* memoryTypeBits of the buffer's memory requirements.
CallFindMemoryTypeIndex ==
    /\ sel.fn = "none"
    /\ \E types \in MemoryTypeLists :
         \E bits \in SUBSET (0 .. (Len(types) - 1)) :
          sel' = [ fn   |-> "_find_memory_type_index",
                   args |-> [ types |-> types, allowed |-> bits,
                              properties |-> RequestedProperties ],
                   out  |-> FindMemoryTypeIndex(types, bits,
                                                RequestedProperties) ]
    /\ UNCHANGED engineVars
    /\ UNCHANGED copy

\* create_buffer (_buffers.py) calls _find_memory_type.
CallFindMemoryType ==
    /\ sel.fn = "none"
    /\ \E types \in MemoryTypeLists :
         \E bits \in SUBSET (0 .. (Len(types) - 1)) :
          sel' = [ fn   |-> "_find_memory_type",
                   args |-> [ types |-> types, allowed |-> bits,
                              properties |-> RequestedProperties ],
                   out  |-> FindMemoryType(types, bits, RequestedProperties) ]
    /\ UNCHANGED engineVars
    /\ UNCHANGED copy

\* What make_swapchain choses for a window size on a surface: the extent
\* and the image count of _chose_swapchain_extent.
MakeSwapchainChoice(a) ==
    [ extent      |-> ChoseSwapchainExtent(a.caps, a.width, a.height),
      image_count |-> ChoseImageCount(a.counts) ]

\* __make_swapchain: make_swapchain is called for a window size.
CallMakeSwapchain ==
    /\ sel.fn = "none"
    /\ \E c \in SurfaceCapabilities, k \in ImageCountLimits,
          w \in RequestedDims, h \in RequestedDims :
          LET a == [ width |-> w, height |-> h, caps |-> c, counts |-> k ]
          IN  sel' = [ fn    |-> "make_swapchain",
                       args  |-> a,
                       out   |-> MakeSwapchainChoice(a),
                       again |-> FALSE,
                       firstArgs |-> a,
                       first |-> MakeSwapchainChoice(a) ]
    /\ UNCHANGED engineVars
    /\ UNCHANGED copy

\* __recreate_swapchain: make_swapchain is called a second time, on the
\* same surface, for the size the window has by then.
CallMakeSwapchainAgain ==
    /\ sel.fn = "make_swapchain"
    /\ ~ sel.again
    /\ \E w \in RequestedDims, h \in RequestedDims :
          LET a == [ sel.args EXCEPT !.width = w, !.height = h ]
          IN  sel' = [ sel EXCEPT !.args = a,
                                  !.out = MakeSwapchainChoice(a),
                                  !.again = TRUE ]
    /\ UNCHANGED engineVars
    /\ UNCHANGED copy

\* The helper returns; the next call may be made.
SelectReturn ==
    /\ sel.fn # "none"
    /\ sel' = NoCall
    /\ UNCHANGED engineVars
    /\ UNCHANGED copy

SelectNext ==
    \/ SelectReturn
    \/ CallClamp
    \/ CallChoseSwapchainExtent
    \/ CallCreateSwapchain
    \/ CallChoseSwapchainSurfacePresentMode
    \/ CallChosePresentMode
    \/ CallChoseSwapchainSurfaceFormat
    \/ CallChoseSurfaceFormat
    \/ CallFindMemoryTypeIndex
    \/ CallFindMemoryType
    \/ CallMakeSwapchain
    \/ CallMakeSwapchainAgain

SelectSpec == Init /\ [][SelectNext]_vars

\* ======================================================================
\* Properties
\* ======================================================================

\* The objects the specification calls swapchain-dependent.
SwapchainDependent ==
    {"image_views", "frame_buffers", "pipeline", "render_pass",
     "pipeline_layout", "cmd_buffers"}

\* A render() call is in progress (including a recreation it started).
InRender ==
    pc \in {"wait_fence", "reset_fence", "acquire", "frame", "reset_cb",
            "prepare", "record", "submit", "present", "advance",
            "rc_size", "rc_idle", "rc_cleanup", "rc_swapchain",
            "rc_frame_buffers", "rc_cmd_buffers", "rc_resources"}

\* The CPU has reset the command buffer of frames[frame_index] and is writing
\* that frame's mapped buffers, descriptor set and command buffer.
CpuWritesFrame == pc \in {"prepare", "record", "submit"}

\* C1 -- fence discipline: while render() re-records the command buffer and
\* rewrites the mapped buffers of frames[frame_index], no earlier submission
\* that uses that frame's command buffer and buffers is still unfinished.
C1_FenceDiscipline ==
    CpuWritesFrame => \A p \in pending : p.frame # FrameIndexValue

\* C2 -- round-robin: once k render() calls have been made, whether or not
\* they took the recreation path, the frame counter is k mod N.  (Calls that
\* ended on a timeout or on a result unrelated to recreation are left out.)
C2_RoundRobin ==
    (~InRender /\ exc \in {"none", "UnboundLocalError"})
        => frameNumber = callCount % nFrames

\* C3 -- an out-of-date acquisition aborts the frame cleanly: nothing is
\* recorded, submitted or presented, the swapchain is rebuilt, and the call
\* ends normally so that the run loop goes on to the next render() call.
C3_AcquireOutOfDateAborts ==
    (call.acquire = "out_of_date" /\ call.recreated) =>
        /\ ~call.recorded
        /\ call.submit = "none"
        /\ call.present = "none"
        /\ "swapchain" \in live /\ made["swapchain"] = swapGen
        /\ pc # "crashed"

\* C4 -- the slot's fence is reset only after acquisition has succeeded.
C4_FenceResetAfterAcquire ==
    call.fenceReset => call.acquire = "success"

\* C5 -- semaphore chain: a submission waits on the image-available semaphore
\* signaled by the same call's acquire, and a present waits on a
\* render-finished semaphore signaled by a submission of the same call.
C5_SemaphoreChain ==
    /\ call.submit = "ok" => call.submitWait = callCount
    /\ call.present # "none" =>
          (call.submit = "ok" /\ call.presentWait = callCount)

\* C6 -- no present request is issued in a call whose vkQueueSubmit failed.
C6_SkipPresentOnSubmitFailure ==
    call.submit = "failed" => call.present = "none"

\* The presentation engine told this call that the swapchain is stale.
StaleSwapchain ==
    \/ call.acquire = "out_of_date"
    \/ call.present \in {"out_of_date", "suboptimal"}

\* C7 -- a stale-swapchain result is recovered inside render(): the call never
\* ends with an exception, and when it has returned the swapchain was rebuilt.
C7_StaleSwapchainRecovered ==
    StaleSwapchain =>
        /\ pc # "crashed"
        /\ (pc = "loop" => call.recreated)

\* C8 -- a timeout of the fence wait or of the acquisition is fatal: the call
\* has reset no fence, recorded, submitted and presented nothing, and the run
\* loop has ended.
C8_TimeoutIsFatal ==
    exc = "VkTimeout" =>
        /\ pc = "crashed"
        /\ ~call.fenceReset
        /\ ~call.recorded
        /\ call.submit = "none"
        /\ call.present = "none"

\* C9 -- every step of __recreate_swapchain and of cleanup that destroys an
\* object is taken after vkDeviceWaitIdle of the same operation, with no
\* submission unfinished.
C9_IdleBeforeDestroy ==
    [][ (\E k \in live : k \notin live') =>
            /\ pending = {}
            /\ Len(oplog) > 0 /\ oplog[1] = "vkDeviceWaitIdle" ]_vars

\* A recreation has destroyed the old swapchain after an idle wait that had
\* unfinished submissions to wait for.
C9_Witness ==
    /\ pc = "rc_swapchain"
    /\ lastIdleDrained > 0
    /\ "swapchain" \notin live

\* Position of call c in the log (0 when absent).
Pos(c) ==
    IF \E i \in 1 .. Len(oplog) : oplog[i] = c
       THEN CHOOSE i \in 1 .. Len(oplog) :
               /\ oplog[i] = c
               /\ \A j \in 1 .. (i - 1) : oplog[j] # c
       ELSE 0

\* C10 -- a completed recreation has destroyed and rebuilt every
\* swapchain-dependent object (none is left from an older swapchain and the
\* replaced command buffers are released), has kept the command pool, device
\* and instance, and has created each object after those it depends on.
C10_RecreateRebuildsDependents ==
    call.recreated =>
        /\ \A k \in SwapchainDependent : k \in live /\ made[k] = swapGen
        /\ cmdBufAllocated = nFrames + 1
        /\ \A k \in {"command_pool", "device", "instance"} :
              k \in live /\ made[k] = 1
        /\ 0 < Pos("create swapchain")
        /\ Pos("create swapchain") < Pos("create image_views")
        /\ Pos("create image_views") < Pos("create frame_buffers")
        /\ Pos("create frame_buffers") < Pos("allocate cmd_buffers")
        /\ Pos("allocate cmd_buffers") < Pos("create fences")

\* __recreate_swapchain is running.
InRecreate ==
    pc \in {"rc_size", "rc_idle", "rc_cleanup", "rc_swapchain",
            "rc_frame_buffers", "rc_cmd_buffers", "rc_resources"}

C12_ResizeTriggersRecreation ==
    (call.resize /\ pc = "loop" /\ exc = "none") => call.recreated

\* C13 -- cleanup destroys in the order: device-idle wait, per-slot objects,
\* pooled objects (descriptor pool, command pool), swapchain, then device,
\* surface and instance.
C13_CleanupOrder ==
    pc = "exited" =>
        /\ Pos("vkDeviceWaitIdle") = 1
        /\ Pos("vkDeviceWaitIdle") < Pos("destroy image_views")
        /\ Pos("destroy image_views") < Pos("destroy frame_buffers")
        /\ Pos("destroy frame_buffers") < Pos("unmap model_buffers")
        /\ Pos("unmap model_buffers") < Pos("free model_buffers")
        /\ Pos("unmap uniform_buffers") < Pos("free uniform_buffers")
        /\ Pos("destroy uniform_buffers") < Pos("destroy semaphores")
        /\ Pos("destroy semaphores") < Pos("destroy fences")
        /\ Pos("destroy fences") < Pos("destroy descriptor_pool")
        /\ Pos("destroy fences") < Pos("destroy command_pool")
        /\ Pos("destroy descriptor_pool") < Pos("destroy swapchain")
        /\ Pos("destroy command_pool") < Pos("destroy swapchain")
        /\ Pos("destroy swapchain") < Pos("destroy device")
        /\ Pos("destroy device") < Pos("destroy surface")
        /\ Pos("destroy surface") < Pos("destroy instance")

\* The objects created from the logical device.
DeviceCreated ==
    AllKinds \ {"window", "instance", "debug_messenger", "surface", "device"}

\* C13 as the code has it -- cleanup waits for device idle first, destroys the
\* command pool next (before the per-slot objects), then the per-slot objects
\* (unmap before free before destroy), the descriptor pool and the swapchain,
\* and the device only when nothing created from it is left; surface and
\* instance follow the device.
C13_CleanupOrderInCode ==
    /\ "device" \notin live => live \cap DeviceCreated = {}
    /\ pc = "exited" =>
          /\ live = {}
          /\ Pos("vkDeviceWaitIdle") = 1
          /\ Pos("destroy command_pool") = 2
          /\ Pos("destroy command_pool") < Pos("destroy image_views")
          /\ Pos("destroy image_views") < Pos("destroy frame_buffers")
          /\ Pos("destroy frame_buffers") < Pos("unmap model_buffers")
          /\ Pos("unmap model_buffers") < Pos("free model_buffers")
          /\ Pos("free model_buffers") < Pos("destroy model_buffers")
          /\ Pos("destroy model_buffers") < Pos("unmap uniform_buffers")
          /\ Pos("unmap uniform_buffers") < Pos("free uniform_buffers")
          /\ Pos("free uniform_buffers") < Pos("destroy uniform_buffers")
          /\ Pos("destroy uniform_buffers") < Pos("destroy semaphores")
          /\ Pos("destroy semaphores") < Pos("destroy fences")
          /\ Pos("destroy fences") < Pos("destroy descriptor_pool")
          /\ Pos("destroy descriptor_pool") < Pos("destroy swapchain")
          /\ Pos("destroy swapchain") < Pos("destroy device")
          /\ Pos("destroy device") < Pos("destroy surface")
          /\ Pos("destroy surface") < Pos("destroy instance")

\* Cleanup has run to its end after frames were submitted.
C13_Witness ==
    /\ pc = "exited"
    /\ callCount > 0
    /\ lastIdleDrained > 0

\* C14 -- whenever the process has ended, by a closed window or by an
\* exception of render(), Engine.cleanup has run to its end: every object
\* the engine created is destroyed.
C14_CleanupOnEveryExit ==
    pc \in {"exited", "crashed"} => live = {}

\* Engine.__init__ has just returned, or the current render() call has
\* completed a swapchain recreation.
AfterSetupOrRecreate ==
    \/ pc = "loop" /\ callCount = 0
    \/ call.recreated /\ pc \in {"frame", "advance", "loop", "crashed"}

C16_NoMissingHandleAtRender ==
    pc = "wait_fence" => missing = {}

\* Setup that met no failure ends in the state the run loop starts from.
SetupReachesInit ==
    (pc = "loop" /\ missing = {}) =>
        /\ live = AllKinds
        /\ made = [k \in AllKinds |-> 1]
        /\ \A s \in Slots : fence[s]
        /\ frames = [s \in Slots |->
                        [ command_buffer |-> 1, semaphores |-> 2, fence |-> 1 ]]
        /\ cmdBufAllocated = nFrames + 1
        /\ extent = ChoseSwapchainExtent(caps, width, height)
        /\ swapGen = 1

\* The table indices draw d reads: instances firstInstance ..
\* firstInstance + instanceCount - 1, which are entries firstInstance + 1 ..
\* firstInstance + instanceCount of the sequence.
DrawRange(d) == (d.firstInstance + 1) .. (d.firstInstance + d.instanceCount)

\* C17 -- once __record_draw_command has run, there is one draw per mesh
\* type, in the order triangles, squares, pentagons, with (first_instance,
\* instance_count) = (0, t), (t, s), (t + s, p); the range of each draw is
\* exactly the set of table entries written for its mesh type, the ranges are
\* disjoint, and there are t + s + p entries in all.
C17_InstanceTableLayout ==
    call.recorded =>
        LET d == call.draws
            t == scene.triangle
            s == scene.square
            p == scene.pentagon
        IN  /\ Len(d) = 3
            /\ d[1] = [mesh |-> "triangle", firstInstance |-> 0,
                       instanceCount |-> t]
            /\ d[2] = [mesh |-> "square", firstInstance |-> t,
                       instanceCount |-> s]
            /\ d[3] = [mesh |-> "pentagon", firstInstance |-> t + s,
                       instanceCount |-> p]
            /\ Len(call.table) = t + s + p
            /\ \A k \in 1 .. 3 :
                  DrawRange(d[k]) =
                      { i \in 1 .. Len(call.table) : call.table[i] = d[k].mesh }
            /\ \A j, k \in 1 .. 3 :
                  j # k => DrawRange(d[j]) \cap DrawRange(d[k]) = {}

\* The scene with 10 triangles, 6 squares and 9 pentagons has been recorded:
\* first instances 0, 10 and 16, and 25 entries.
C17_Witness ==
    /\ call.recorded
    /\ scene = [triangle |-> 10, square |-> 6, pentagon |-> 9]
    /\ call.draws[2].firstInstance = 10
    /\ call.draws[3].firstInstance = 16
    /\ Len(call.table) = 25

\* C18 -- whatever the scene, __prepare_frame stores at most TableCapacity
\* entries in the table and copies at most TableCapacity entries into the
\* mapped buffer.
C18_TableWithinCapacity ==
    /\ Len(call.table) <= TableCapacity
    /\ call.copied <= TableCapacity

\* __prepare_frame was given more positions than the table has entries: it
\* filled the table and raised on the next assignment.
C18_Witness ==
    /\ exc = "IndexError"
    /\ scene.triangle + scene.square + scene.pentagon > TableCapacity
    /\ Len(call.table) = TableCapacity
    /\ call.copied = 0

\* Position of command c in the calls made on the command buffer (0: absent).
CmdPos(c) ==
    IF \E i \in 1 .. Len(call.cmds) : call.cmds[i] = c
       THEN CHOOSE i \in 1 .. Len(call.cmds) :
               /\ call.cmds[i] = c
               /\ \A j \in 1 .. (i - 1) : call.cmds[j] # c
       ELSE 0

\* vkEndCommandBuffer was called, whatever it returned.
EndIssued ==
    CmdPos("vkEndCommandBuffer") > 0 \/ CmdPos("vkEndCommandBuffer failed") > 0

\* C19 -- once __record_draw_command has run, the command buffer is not in
\* the recording state, the render pass was begun after the buffer and ended
\* before the buffer was ended, and vkEndCommandBuffer was called only for a
\* buffer whose vkBeginCommandBuffer had succeeded.
C19_BeginEndPaired ==
    call.recorded =>
        /\ call.cbState # "recording"
        /\ CmdPos("vkCmdBeginRenderPass") < CmdPos("vkCmdEndRenderPass")
        /\ \A i \in 1 .. Len(call.cmds) :
              call.cmds[i] \in {"vkEndCommandBuffer", "vkEndCommandBuffer failed"}
                  => CmdPos("vkCmdEndRenderPass") < i
        /\ EndIssued => CmdPos("vkBeginCommandBuffer") = 1
        /\ CmdPos("vkCmdEndRenderPass") > 0 =>
              /\ CmdPos("vkBeginCommandBuffer") = 1
              /\ CmdPos("vkCmdBeginRenderPass") > 0

\* C20 -- the submissions the GPU has not finished are at most as many as
\* there are frame slots, and no two of them were submitted with the same
\* slot's fence.
C20_BoundedFramesInFlight ==
    /\ Cardinality(pending) <= nFrames
    /\ \A p, q \in pending : p.slot = q.slot => p = q

\* Every slot has an unfinished submission, and there are at least two.
C20_Witness ==
    /\ Cardinality(pending) = nFrames
    /\ nFrames > 1

\* The last call chose a swapchain extent.
ChoseAnExtent == sel.fn \in {"_chose_swapchain_extent", "create_swapchain"}

\* C21 -- whatever the window size and the extent limits (min <= max), the
\* extent chosen, by _chose_swapchain_extent as by _chose_extent, is inside
\* the limits in each dimension.
C21_ExtentWithinLimits ==
    ChoseAnExtent =>
        /\ sel.args.caps.minW <= sel.out.extent.width
        /\ sel.out.extent.width <= sel.args.caps.maxW
        /\ sel.args.caps.minH <= sel.out.extent.height
        /\ sel.out.extent.height <= sel.args.caps.maxH

\* _chose_swapchain_extent was given a width above the limit and a height
\* below it, and returned the two limits.
C21_Witness ==
    /\ sel.fn = "_chose_swapchain_extent"
    /\ sel.args.width > sel.args.caps.maxW
    /\ sel.args.height < sel.args.caps.minH
    /\ sel.out.extent.width = sel.args.caps.maxW
    /\ sel.out.extent.height = sel.args.caps.minH

\* What "clamp the value between min and max" means for min_ <= max_.
Clamped(min_, value, max_) ==
    IF value < min_ THEN min_ ELSE IF value > max_ THEN max_ ELSE value

\* C22 -- for min_ <= max_, clamp returns the value when it is inside
\* [min_, max_], min_ when it is below and max_ when it is above; so
\* _chose_extent returns a width and height inside the limits unchanged.
C22_ClampClamps ==
    /\ (sel.fn = "clamp" /\ sel.args.min_ <= sel.args.max_) =>
          sel.out = Clamped(sel.args.min_, sel.args.value, sel.args.max_)
    /\ (sel.fn = "create_swapchain"
          /\ sel.args.caps.minW <= sel.args.width
          /\ sel.args.width <= sel.args.caps.maxW
          /\ sel.args.caps.minH <= sel.args.height
          /\ sel.args.height <= sel.args.caps.maxH) =>
          sel.out.extent = [ width |-> sel.args.width,
                             height |-> sel.args.height ]

\* C23 -- the image count chosen is minImageCount + 1 when maxImageCount is
\* 0 (no upper limit) or at least minImageCount + 1, and maxImageCount
\* otherwise; it is never 0 and never below minImageCount.
C23_ImageCount ==
    ChoseAnExtent =>
        LET k == sel.args.counts
            n == sel.out.image_count
        IN  /\ n = IF k.maxImageCount = 0
                      \/ k.maxImageCount >= k.minImageCount + 1
                   THEN k.minImageCount + 1
                   ELSE k.maxImageCount
            /\ n # 0
            /\ n >= k.minImageCount

\* C24 -- present-mode selection returns mailbox for a list that contains
\* it and FIFO for a list that does not, and never a mode that the list
\* does not contain.
C24_PresentModeChoice ==
    sel.fn \in {"_chose_swapchain_surface_present_mode", "_chose_present_mode"} =>
        /\ Listed("MAILBOX", sel.args.modes) => sel.out = "MAILBOX"
        /\ ~ Listed("MAILBOX", sel.args.modes) => sel.out = "FIFO"
        /\ Listed(sel.out, sel.args.modes)

\* The pair the format selection is said to prefer.
PreferredFormat ==
    [ format |-> "B8G8R8A8_SRGB", colorSpace |-> "SRGB_NONLINEAR" ]

\* C25 -- format selection returns the 4-channel sRGB format with the
\* sRGB-nonlinear color space for a list that contains it, and the first
\* listed format for a list that does not.
C25_FormatChoice ==
    sel.fn \in {"_chose_swapchain_surface_format", "_chose_surface_format"} =>
        /\ Listed(PreferredFormat, sel.args.formats) =>
              sel.out = PreferredFormat
        /\ ~ Listed(PreferredFormat, sel.args.formats) =>
              sel.out = sel.args.formats[1]

\* C26 -- the memory type selected for the mapped uniform and storage
\* buffers is one the memory requirements allow and has the host-visible
\* and the host-coherent property; when no allowed type has both, an error
\* is reported and no type is returned.
C26_MemoryTypeChoice ==
    sel.fn \in {"_find_memory_type_index", "_find_memory_type"} =>
        LET a == sel.args
            suitable == { i \in a.allowed : a.properties \subseteq a.types[i + 1] }
        IN  /\ ~ sel.out.raised => sel.out.index \in suitable
            /\ suitable = {} => sel.out.raised

\* make_swapchain was called twice for one window size on one surface.
MadeTwiceAlike ==
    /\ sel.fn = "make_swapchain"
    /\ sel.again
    /\ sel.args = sel.firstArgs

C28_FenceNeverOrphaned ==
    pc = "wait_fence" =>
        \/ fence[frameNumber]
        \/ \E p \in pending : p.slot = frameNumber

\* The kinds of per-frame sync objects the frame counter selects.
SyncKinds == { "semaphores", "fences" }

\* C29 -- at the start of every render() call the frame counter is a slot
\* number, 0 <= counter < number of slots, and the semaphores and the fence
\* it selects are objects of a frame of the current swapchain, not of a
\* destroyed one; also after a recreation that changed the number of images.
C29_CounterSelectsCurrentFrame ==
    pc = "wait_fence" =>
        /\ 0 <= frameNumber
        /\ frameNumber < nFrames
        /\ frameNumber \in DOMAIN frames
        /\ frameNumber \in DOMAIN fence
        /\ \A k \in SyncKinds : k \in live /\ made[k] = swapGen

\* render() starts on a recreated swapchain whose number of slots differs
\* from the one before: the counter is no longer the number of calls made
\* modulo the number of slots.
C29_Witness ==
    /\ pc = "wait_fence"
    /\ swapGen > 1
    /\ frameNumber # (callCount - 1) % nFrames

\* C30 -- in every state in which render() can be called, the swapchain
\* and every per-frame object the engine holds (image views, frame buffers,
\* buffers, semaphores, fences, descriptor sets and their pool) are live
\* objects of the one current swapchain generation, also after a rebuild
\* one of whose creation steps failed.
C30_SwapchainReplacedAtomically ==
    pc = "loop" =>
        \A k \in CleanupSwapchainKinds : k \in live /\ made[k] = swapGen

\* __prepare_frame is about to copy, or has copied, into the write locations
\* of frames[frame_index].
CopiesIntoFrame == pc \in {"prepare", "record"}

\* C31 -- persistent mapping: each per-slot buffer that exists was mapped
\* exactly once, at its creation, and is still mapped; memory is unmapped
\* only when its buffer is destroyed; and the copies of __prepare_frame go to
\* the write location of memory that is mapped, not freed, and of the
\* current frames.
C31_PersistentMapping ==
    /\ \A k \in BufferKinds :
          /\ k \in live => mapping[k] = [ maps |-> 1, mapped |-> TRUE ]
          /\ k \notin live => ~ mapping[k].mapped
    /\ CopiesIntoFrame =>
          \A k \in BufferKinds :
              k \in live /\ mapping[k].mapped /\ made[k] = swapGen

\* __prepare_frame has copied the instance table into the buffers of a
\* swapchain made by a recreation.
C31_Witness ==
    /\ pc = "record"
    /\ call.copied > 0
    /\ swapGen > 1
    /\ \A k \in BufferKinds : mapping[k].maps = 1

\* The calls that bind or draw.
BindOrDraw ==
    { "vkCmdBindPipeline", "vkCmdBindDescriptorSets 0",
      "vkCmdBindDescriptorSets 1", "vkCmdBindVertexBuffers", "vkCmdDraw" }

\* C32 -- the commands recorded for one frame are: begin the buffer, begin
\* one render pass, bind the pipeline, bind the frame descriptor set at set
\* index 0, then for each of the three mesh types bind its material set at
\* set index 1, bind its vertex buffer and draw once, end the render pass,
\* end the buffer; no bind and no draw is recorded outside the render pass.
C32_RecordedSequence ==
    call.recorded =>
        /\ call.cmds =
              << "vkBeginCommandBuffer", "vkCmdBeginRenderPass",
                 "vkCmdBindPipeline", "vkCmdBindDescriptorSets 0",
                 "vkCmdBindDescriptorSets 1", "vkCmdBindVertexBuffers",
                 "vkCmdDraw",
                 "vkCmdBindDescriptorSets 1", "vkCmdBindVertexBuffers",
                 "vkCmdDraw",
                 "vkCmdBindDescriptorSets 1", "vkCmdBindVertexBuffers",
                 "vkCmdDraw",
                 "vkCmdEndRenderPass", "vkEndCommandBuffer" >>
        /\ \A i \in 1 .. Len(call.cmds) :
              call.cmds[i] \in BindOrDraw =>
                  /\ CmdPos("vkCmdBeginRenderPass") < i
                  /\ i < CmdPos("vkCmdEndRenderPass")

\* render() is executing one of its own statements, outside
\* __recreate_swapchain.
InSteadyRender ==
    pc \in {"wait_fence", "reset_fence", "acquire", "frame", "reset_cb",
            "prepare", "record", "submit", "present", "advance"}

\* C33 -- a render() call that does not enter swapchain recreation
\* terminates: from every statement of render() the call goes on until it
\* has returned, has failed, or has entered __recreate_swapchain; the fence
\* wait and the acquisition end by their timeout at the latest.
C33_RenderTerminates == InSteadyRender ~> ~InSteadyRender

\* A call has ended on the timeout of its second bounded wait, the
\* acquisition, after a fence wait that returned.
C33_Witness ==
    /\ pc = "crashed"
    /\ exc = "VkTimeout"
    /\ call.acquire = "timeout"
    /\ call.fenceReset

\* C34 -- outside a recreation in progress, the extent the graphics
\* pipeline was built with (its viewport and scissor) is the extent of the
\* current swapchain, the one the render area and the aspect ratio are taken
\* from; also after recreations.
C34_PipelineMatchesExtent ==
    ~ InRecreate => pipelineExtent = extent

\* C35 -- outside a recreation in progress, the command buffers allocated
\* from the command pool and not freed are at most one per frame slot plus
\* the asset-upload buffer, however many calls and recreations have been
\* made.
C35_CommandBuffersBounded ==
    ~ InRecreate => cmdBufAllocated <= nFrames + 1

\* copy_buffer has been left, by its end or by an exception.
CopyOver == copy.pc \in {"done", "raised"}

\* C36 -- the CommandBufferManager constructed with a queue submits its
\* command buffer only when the body of the with statement did not raise;
\* when the body raised, the buffer is ended and not submitted; and
\* copy_buffer has freed its temporary command buffer whenever it is left.
C36_OneShotSubmitOnlyOnSuccess ==
    /\ copy.submitted => ~ copy.bodyRaised
    /\ (CopyOver /\ copy.bodyRaised /\ copy.exc = "body") =>
          copy.ended /\ ~ copy.submitted
    /\ CopyOver => ~ copy.allocated

=============================================================================
